---- MODULE Spec2Model ----
(***************************************************************************)
(* Regional Agent Data Service (rads): the ingest / process / reply         *)
(* pipeline of Manager and the transactional configuration mutators of      *)
(* handler.go, as a state machine.                                          *)
(*                                                                          *)
(* Go strings are TLA+ strings.  Where the code looks inside a string       *)
(* (validateDomain) the characters come from the table Chars; where it      *)
(* orders strings (sort.Strings) the order comes from the table StrRank.    *)
(* SQL tables are sets of rows; the primary key is the field id.            *)
(***************************************************************************)
EXTENDS Integers, Sequences, FiniteSets, TLC

VARIABLES
    stream,          \* broker: the requests published on proxy.<agent>.request.>
    consumer,        \* broker: per stream index, the durable consumer's record
    natsChan,        \* Manager.NATSMessageChan (stream indexes)
    ingestBatch,     \* StoreRequestsAndAcknowledge: the drained local list
    dbMessages,      \* committed Message table (row id = position)
    dbCfg,           \* committed configuration tables
    procPc,          \* ProcessRequests: position in its loop
    procMessages,    \* ProcessRequests: the fetched batch
    procIdx,         \* ProcessRequests: next message of the batch
    tx,              \* the open write transaction's view, or NoTx
    pubPc,           \* SendResponsesToQueue: position in its loop
    pubMessages,     \* SendResponsesToQueue: messages
    responsePayloads,\* SendResponsesToQueue: responsePayloads
    ackedMessages,   \* SendResponsesToQueue: ackedMessages
    pubIdx,          \* SendResponsesToQueue: next payload to publish
    replies,         \* broker: envelopes published on proxy.<agent>.reply.>
    hasPendingProxyChanges, \* Manager.HasPendingProxyChanges
    clock,           \* logical time.Now()
    faults,          \* failures the environment may still inject
    hist,            \* history: what the run has done so far (read by the properties only)
    mainPc,          \* main: position in the main routine
    taskPc,          \* per task: "unspawned", "spawned", "running" or "done"; ListenToStream
                     \* is "connecting" in its retry loop and "running" once subscribed
    wg,              \* Manager.Wg: the WaitGroup's counter
    cancelled        \* Manager.Context is cancelled

vars == <<stream, consumer, natsChan, ingestBatch, dbMessages, dbCfg, procPc,
          procMessages, procIdx, tx, pubPc, pubMessages, responsePayloads,
          ackedMessages, pubIdx, replies, hasPendingProxyChanges, clock, faults, hist,
          mainPc, taskPc, wg, cancelled>>

\* The variables of start-up and shutdown.
lifecycle == <<mainPc, taskPc, wg, cancelled>>

\* The variables of the pipeline.
pipeline == <<stream, consumer, natsChan, ingestBatch, dbMessages, dbCfg, procPc,
              procMessages, procIdx, tx, pubPc, pubMessages, responsePayloads,
              ackedMessages, pubIdx, replies, hasPendingProxyChanges, clock, faults, hist>>

-----------------------------------------------------------------------------
(* Bounds of the model *)

\* Requests published on the stream in one run.
MaxPublished == 2
\* Redeliveries of one stream message (ack lost, nak, ack-wait expiry).
MaxRedeliver == 1
\* Injected failures in one run (a lost ack, a store error at ingest, a failed
\* commit, a failed publish).
MaxFaults == 1
\* Requests published in one run that exercises the release of a listener.
MaxListenerRequests == 3
\* Processed rows awaiting their reply when the publisher starts an iteration.
MaxPending == 201

-----------------------------------------------------------------------------
(* Program constants *)

AgentID == "A"
IncomingStreamPrefix == "proxy." \o AgentID \o ".request."
OutgoingStreamPrefix == "proxy." \o AgentID \o ".reply."
ChanCapacity == 1000
ProcessBatchLimit == 100
\* The argument of Limit in the publisher's query.
PublishBatchLimit == 200
maxDomainLen == 253

HTTP == "http"
TCP == "tcp"
STATIC_RESOLVER == "static"
DNS_RESOLVER == "dns"

\* Sentinels: no open transaction, Go's nil, the JSON text {}.
NoTx == <<>>
Nil == [nil |-> TRUE]
EmptyObject == <<>>

-----------------------------------------------------------------------------
(* Strings *)

\* The characters of the strings validateDomain is given in this model.
Chars ==
    [s \in {"", "a.io", "b.io", "a_b", "*", "-a.io", "a..io"} |->
        CASE s = ""      -> <<>>
          [] s = "a.io"  -> <<"a", ".", "i", "o">>
          [] s = "b.io"  -> <<"b", ".", "i", "o">>
          [] s = "a_b"   -> <<"a", "_", "b">>
          [] s = "*"     -> <<"*">>
          [] s = "-a.io" -> <<"-", "a", ".", "i", "o">>
          [] s = "a..io" -> <<"a", ".", ".", "i", "o">>]

\* Go's byte order on the strings that the model sorts (sort.Strings).
StrRank ==
    [s \in {"10.0.0.0/8", "192.168.1.0/24", "a", "b", "bad"} |->
        CASE s = "10.0.0.0/8"     -> 1
          [] s = "192.168.1.0/24" -> 2
          [] s = "a"              -> 3
          [] s = "b"              -> 4
          [] s = "bad"            -> 5]

\* The strings of the model net.ParseCIDR accepts.
IsValidCIDR(s) == s \in {"10.0.0.0/8", "192.168.1.0/24"}

RECURSIVE Insert(_, _)
Insert(x, sorted) ==
    IF sorted = <<>> THEN <<x>>
    ELSE IF StrRank[x] <= StrRank[Head(sorted)] THEN <<x>> \o sorted
    ELSE <<Head(sorted)>> \o Insert(x, Tail(sorted))

RECURSIVE SortStrings(_)
SortStrings(s) == IF s = <<>> THEN <<>> ELSE Insert(Head(s), SortStrings(Tail(s)))

\* StringList.Value without the sort (faulty variant).
StringListValueUnsorted(s) == s

\* StringList.Value: the column text, the JSON array of the sorted list.
StringListValue(s) == IF Len(s) = 0 THEN <<>> ELSE SortStrings(s)

\* StringList.Scan: the list read back from the column text, sorted again.
StringListScan(v) == SortStrings(v)

-----------------------------------------------------------------------------
(* Validation helpers *)

LowerAlnum == {"a", "b", "i", "o", "0", "1"}

RECURSIVE SplitDots(_, _)
\* strings.Split(s, "."): cur is the label being read.
SplitDots(s, cur) ==
    IF s = <<>> THEN <<cur>>
    ELSE IF Head(s) = "." THEN <<cur>> \o SplitDots(Tail(s), <<>>)
    ELSE SplitDots(Tail(s), Append(cur, Head(s)))

\* labelRE: ^[a-z0-9](?:[a-z0-9-]{0,61}[a-z0-9])?$
LabelMatches(p) ==
    /\ Len(p) >= 1
    /\ Len(p) <= 63
    /\ p[1] \in LowerAlnum
    /\ p[Len(p)] \in LowerAlnum
    /\ \A i \in 1..Len(p) : p[i] \in LowerAlnum \cup {"-"}

\* idna.Lookup.ToASCII on lower-case ASCII input: STD3 rules reject every rune
\* that is not a letter, a digit, a hyphen or a dot; a non-empty label may not
\* start or end with a hyphen; empty labels pass (no DNS length check).
IdnaLookupOk(s) ==
    /\ \A i \in 1..Len(s) : s[i] \in LowerAlnum \cup {"-", "."}
    /\ LET parts == SplitDots(s, <<>>)
       IN \A k \in 1..Len(parts) :
            Len(parts[k]) > 0 => (parts[k][1] # "-" /\ parts[k][Len(parts[k])] # "-")

HasDoubleDot(s) == \E i \in 1..(Len(s) - 1) : s[i] = "." /\ s[i + 1] = "."

\* validateDomain accepting every string (faulty variant).
validateDomainAlways(d) == TRUE

\* validateDomain(s): whether the domain is accepted.
validateDomain(d) ==
    LET s == Chars[d]
    IN /\ IdnaLookupOk(s)
       /\ Len(s) <= maxDomainLen
       /\ ~HasDoubleDot(s)
       /\ (Len(s) > 0 => (s[1] # "." /\ s[Len(s)] # "."))
       /\ LET parts == SplitDots(s, <<>>)
          IN \A k \in 1..Len(parts) : LabelMatches(parts[k])

-----------------------------------------------------------------------------
(* Identifiers *)

getTLSCertificateID(domain, isWildCard) ==
    IF isWildCard THEN "*." \o domain ELSE domain

getListenerID(bindIP, port) == bindIP \o ":" \o ToString(port)

getIngressRuleID(protocol, listenerID, domain, routePrefix) ==
    IF protocol = TCP
    THEN "tcp:" \o listenerID
    ELSE "http:" \o listenerID \o ":" \o domain \o ":" \o routePrefix

\* fmt.Sprintf("http:%s:%s:%s:%d", ..., redirectType) with a string argument:
\* the verb %d prints a string as %!d(string=<value>).
getHTTPRedirectRuleID(listenerID, domain, routePrefix, isHTTPSRedirect) ==
    LET redirectType == IF ~isHTTPSRedirect THEN "other" ELSE "https"
    IN "http:" \o listenerID \o ":" \o domain \o ":" \o routePrefix \o ":"
         \o "%!d(string=" \o redirectType \o ")"

-----------------------------------------------------------------------------
(* Configuration tables (gorm over SQLite) *)

EmptyCfg == [certs |-> {}, listeners |-> {}, backends |-> {}, ingress |-> {}, redirects |-> {}]

Ids(table) == {row.id : row \in table}

RowById(table, id) == CHOOSE row \in table : row.id = id

\* db.Create: zero-valued fields that carry a `default:` tag are written with
\* the default; the insert fails on an existing primary key.
CreateRow(table, row) == table \cup {row}

\* db.Save of a row with a primary key: every column is rewritten.
SaveRow(table, row) == {r \in table : r.id # row.id} \cup {row}

\* db.Where("id = ?", id).Delete: no error when nothing matches.
DeleteById(table, id) == {r \in table : r.id # id}

\* models.go: Listener, `default:http`, `default:0.0.0.0`, `default:80`.
ListenerDefaults(l) ==
    [l EXCEPT !.protocol = IF @ = "" THEN "http" ELSE @,
              !.ip = IF @ = "" THEN "0.0.0.0" ELSE @,
              !.port = IF @ = 0 THEN 80 ELSE @]

\* models.go: Backend, `default:static`.
BackendDefaults(b) == [b EXCEPT !.resolver_type = IF @ = "" THEN "static" ELSE @]

\* models.go: IngressRule, `default:/` on route_prefix.
IngressRuleDefaults(r) == [r EXCEPT !.route_prefix = IF @ = "" THEN "/" ELSE @]

\* models.go: HTTPRedirectRule, `default:/` on path_prefix, `default:301`.
HTTPRedirectRuleDefaults(r) ==
    [r EXCEPT !.path_prefix = IF @ = "" THEN "/" ELSE @,
              !.status_code = IF @ = 0 THEN 301 ELSE @]

\* The least id of the pool that no Backend row and no IngressRule carries:
\* uuid.NewString() returns an id that was never used; the model's behaviour
\* is the same under any renaming of the ids.
UUIDPool == <<"u1", "u2", "u3", "u4", "u5", "u6">>

NewUUID(cfg) ==
    LET used == Ids(cfg.backends) \cup {r.backend_id : r \in cfg.ingress}
        free == {i \in 1..Len(UUIDPool) : UUIDPool[i] \notin used}
    IN UUIDPool[CHOOSE i \in free : \A j \in free : i <= j]

-----------------------------------------------------------------------------
(* PEM texts: [body, escaped, trailing] is the PEM text of `body` whose line
   breaks are written as the two characters \n when escaped, and which ends
   with a line break when trailing; the body "" is the empty string. *)

EmptyPEM == [body |-> "", escaped |-> FALSE, trailing |-> FALSE]

\* strings.ReplaceAll(s, "\\n", "\n"), then a trailing "\n" when absent.
NormalizePEM(p) == [p EXCEPT !.escaped = FALSE, !.trailing = TRUE]

\* What pem.Decode and x509 read from the bodies of the model: the block type,
\* the RSA modulus (0: not an RSA key) and NotAfter.
PEMBlock ==
    [b \in {"certA", "certB", "keyA", "keyB", "ecKey", "junk"} |->
        CASE b = "certA" -> [type |-> "CERTIFICATE", n |-> 1, notAfter |-> 2030]
          [] b = "certB" -> [type |-> "CERTIFICATE", n |-> 2, notAfter |-> 2031]
          [] b = "keyA"  -> [type |-> "RSA PRIVATE KEY", n |-> 1, notAfter |-> 0]
          [] b = "keyB"  -> [type |-> "PRIVATE KEY", n |-> 2, notAfter |-> 0]
          [] b = "ecKey" -> [type |-> "PRIVATE KEY", n |-> 0, notAfter |-> 0]
          [] b = "junk"  -> [type |-> "", n |-> 0, notAfter |-> 0]]

\* pem.Decode finds a block only when the line breaks are real ones.
Decodes(p) == p.body # "" /\ ~p.escaped /\ PEMBlock[p.body].type # ""

\* ValidateCertAndKey: "" when the pair is accepted, else the error.
ValidateCertAndKey(certPEM, keyPEM) ==
    IF ~Decodes(certPEM) \/ PEMBlock[certPEM.body].type # "CERTIFICATE"
    THEN "invalid certificate PEM data"
    ELSE IF ~Decodes(keyPEM) THEN "invalid private key PEM data"
    ELSE IF PEMBlock[keyPEM.body].type \notin {"RSA PRIVATE KEY", "PRIVATE KEY"}
    THEN "unsupported private key type"
    ELSE IF PEMBlock[keyPEM.body].n = 0 THEN "unsupported private key type for validation"
    ELSE IF PEMBlock[certPEM.body].n # PEMBlock[keyPEM.body].n
    THEN "certificate and key do not match"
    ELSE ""

getCertExpiry(certPEM) == PEMBlock[certPEM.body].notAfter

-----------------------------------------------------------------------------
(* Handlers.  A handler maps the transaction's configuration view and a parsed
   request to [cfg, err, reply]: the view afterwards, the error ("" for nil)
   and the reply JSON (Nil for nil).  wok: the store accepts the handler's
   writes. *)

Result(cfg, err, reply) == [cfg |-> cfg, err |-> err, reply |-> reply]

isTLSCertificateExist(cfg, id) == id \in Ids(cfg.certs)

isListenerExist(cfg, id) == id \in Ids(cfg.listeners)

getListenerByID(cfg, id) == RowById(cfg.listeners, id)

\* upsertListener without the conflict checks, rewriting the row (faulty variant).
upsertListenerOverwrite(cfg, bindIP, port, protocol, isTLS, wok) ==
    LET id == getListenerID(bindIP, port)
        listener == ListenerDefaults([id |-> id, protocol |-> protocol, ip |-> bindIP,
                                      port |-> port, is_tls |-> isTLS])
    IN [cfg |-> [cfg EXCEPT !.listeners = SaveRow(@, listener)],
        err |-> "", listener |-> listener]

\* upsertListener writing the requested row before the conflict checks
\* (faulty variant).
upsertListenerWriteFirst(cfg, bindIP, port, protocol, isTLS, wok) ==
    LET id == getListenerID(bindIP, port)
        listener == ListenerDefaults([id |-> id, protocol |-> protocol, ip |-> bindIP,
                                      port |-> port, is_tls |-> isTLS])
        written == [cfg EXCEPT !.listeners = SaveRow(@, listener)]
    IN IF isListenerExist(cfg, id) /\ getListenerByID(cfg, id).protocol # protocol
       THEN [cfg |-> written, err |-> "listener protocol mismatch", listener |-> Nil]
       ELSE IF isListenerExist(cfg, id) /\ getListenerByID(cfg, id).is_tls # isTLS
       THEN [cfg |-> written,
             err |-> IF isTLS THEN "listener is using non-TLS, requested TLS"
                     ELSE "listener is using TLS, requested non-TLS",
             listener |-> Nil]
       ELSE [cfg |-> written, err |-> "", listener |-> listener]

\* upsertListener: [cfg, err, listener].
upsertListener(cfg, bindIP, port, protocol, isTLS, wok) ==
    LET id == getListenerID(bindIP, port)
    IN IF isListenerExist(cfg, id)
       THEN LET listener == getListenerByID(cfg, id)
            IN IF listener.protocol # protocol
               THEN [cfg |-> cfg, err |-> "listener protocol mismatch", listener |-> Nil]
               ELSE IF listener.is_tls # isTLS
               THEN [cfg |-> cfg,
                     err |-> IF listener.is_tls
                             THEN "listener is using TLS, requested non-TLS"
                             ELSE "listener is using non-TLS, requested TLS",
                     listener |-> Nil]
               ELSE [cfg |-> cfg, err |-> "", listener |-> listener]
       ELSE LET listener == ListenerDefaults([id |-> id, protocol |-> protocol,
                                              ip |-> bindIP, port |-> port, is_tls |-> isTLS])
            IN IF wok
               THEN [cfg |-> [cfg EXCEPT !.listeners = CreateRow(@, listener)],
                     err |-> "", listener |-> listener]
               ELSE [cfg |-> cfg, err |-> "store error", listener |-> listener]

\* findBackend: the rows whose six columns equal the arguments.
findBackend(cfg, resolverType, dnsResolver, hosts, port, isTLS, sniDomain) ==
    {b \in cfg.backends :
        /\ b.resolver_type = resolverType
        /\ b.dns_resolver = dnsResolver
        /\ b.hosts = StringListValue(hosts)
        /\ b.port = port
        /\ b.is_tls = isTLS
        /\ b.sni_domain = sniDomain}

\* upsertBackend: [cfg, err, backend].
upsertBackend(cfg, resolverType, dnsResolver, hosts, port, isTLS, sniDomain, wok) ==
    LET found == findBackend(cfg, resolverType, dnsResolver, hosts, port, isTLS, sniDomain)
    IN IF found # {}
       THEN [cfg |-> cfg, err |-> "", backend |-> CHOOSE b \in found : TRUE]
       ELSE LET backend == BackendDefaults(
                    [id |-> NewUUID(cfg), resolver_type |-> resolverType,
                     dns_resolver |-> dnsResolver, hosts |-> StringListValue(hosts),
                     port |-> port, is_tls |-> isTLS, sni_domain |-> sniDomain])
            IN IF wok
               THEN [cfg |-> [cfg EXCEPT !.backends = CreateRow(@, backend)],
                     err |-> "", backend |-> backend]
               ELSE [cfg |-> cfg, err |-> "store error", backend |-> backend]

\* upsertIngressRule: [cfg, err, rule].
upsertIngressRule(cfg, protocol, listenerID, domain, routePrefix, backendID, allowedCIDRs, deniedCIDRs, priority, wok) ==
    LET id == getIngressRuleID(protocol, listenerID, domain, routePrefix)
    IN IF id \in Ids(cfg.ingress)
       THEN LET rule == [RowById(cfg.ingress, id) EXCEPT
                            !.backend_id = backendID,
                            !.allowed_cidrs = StringListValue(allowedCIDRs),
                            !.denied_cidrs = StringListValue(deniedCIDRs),
                            !.priority = priority]
            IN IF wok
               THEN [cfg |-> [cfg EXCEPT !.ingress = SaveRow(@, rule)], err |-> "", rule |-> rule]
               ELSE [cfg |-> cfg, err |-> "store error", rule |-> rule]
       ELSE LET rule == IngressRuleDefaults(
                    [id |-> id, priority |-> priority, listener_id |-> listenerID,
                     backend_id |-> backendID, domain |-> domain,
                     route_prefix |-> routePrefix,
                     allowed_cidrs |-> StringListValue(allowedCIDRs),
                     denied_cidrs |-> StringListValue(deniedCIDRs)])
            IN IF wok
               THEN [cfg |-> [cfg EXCEPT !.ingress = CreateRow(@, rule)], err |-> "", rule |-> rule]
               ELSE [cfg |-> cfg, err |-> "store error", rule |-> rule]

\* deleteIngressRule failing on an absent id (faulty variant).
deleteIngressRuleStrict(cfg, protocol, listenerID, domain, routePrefix, wok) ==
    LET id == getIngressRuleID(protocol, listenerID, domain, routePrefix)
    IN IF id \notin Ids(cfg.ingress) THEN Result(cfg, "record not found", Nil)
       ELSE Result([cfg EXCEPT !.ingress = DeleteById(@, id)], "", Nil)

deleteIngressRule(cfg, protocol, listenerID, domain, routePrefix, wok) ==
    LET id == getIngressRuleID(protocol, listenerID, domain, routePrefix)
    IN IF wok THEN Result([cfg EXCEPT !.ingress = DeleteById(@, id)], "", Nil)
       ELSE Result(cfg, "store error", Nil)

\* upsertHTTPRedirectRule: [cfg, err, rule].
upsertHTTPRedirectRule(cfg, listenerID, domain, routePrefix, isHttpsRedirect, schemeRedirect, hostRedirect, pathRedirect, statusCode0, priority, wok) ==
    LET id == getHTTPRedirectRuleID(listenerID, domain, routePrefix, isHttpsRedirect)
        statusCode == IF statusCode0 = 0 THEN 301 ELSE statusCode0
    IN IF id \in Ids(cfg.redirects)
       THEN LET rule == [RowById(cfg.redirects, id) EXCEPT
                            !.is_https_redirect = isHttpsRedirect,
                            !.scheme_redirect = schemeRedirect,
                            !.host_redirect = hostRedirect,
                            !.path_redirect = pathRedirect,
                            !.status_code = statusCode]
            IN IF wok
               THEN [cfg |-> [cfg EXCEPT !.redirects = SaveRow(@, rule)], err |-> "", rule |-> rule]
               ELSE [cfg |-> cfg, err |-> "store error", rule |-> rule]
       ELSE LET rule == HTTPRedirectRuleDefaults(
                    [id |-> id, priority |-> priority, listener_id |-> listenerID,
                     domain |-> domain, path_prefix |-> routePrefix,
                     is_https_redirect |-> isHttpsRedirect,
                     scheme_redirect |-> schemeRedirect, host_redirect |-> hostRedirect,
                     path_redirect |-> pathRedirect, status_code |-> statusCode])
            IN IF wok
               THEN [cfg |-> [cfg EXCEPT !.redirects = CreateRow(@, rule)], err |-> "", rule |-> rule]
               ELSE [cfg |-> cfg, err |-> "store error", rule |-> rule]

deleteHTTPRedirectRule(cfg, listenerID, domain, routePrefix, isHTTPSRedirect, wok) ==
    LET id == getHTTPRedirectRuleID(listenerID, domain, routePrefix, isHTTPSRedirect)
    IN IF wok THEN Result([cfg EXCEPT !.redirects = DeleteById(@, id)], "", Nil)
       ELSE Result(cfg, "store error", Nil)

\* TLSCertificateUpsertV1.Process
TLSCertificateUpsertProcess(cfg, r, wok) ==
    IF r.domain = "" THEN Result(cfg, "domain is required", Nil)
    ELSE IF r.cert = EmptyPEM \/ r.key = EmptyPEM THEN Result(cfg, "cert and key are required", Nil)
    ELSE
      LET cert == NormalizePEM(r.cert)
          key == NormalizePEM(r.key)
          id == getTLSCertificateID(r.domain, r.is_wildcard)
          verr == ValidateCertAndKey(cert, key)
          certificateRecord == [id |-> id, domain |-> r.domain,
                                is_wildcard |-> r.is_wildcard, cert |-> cert,
                                key |-> key, expires_at |-> getCertExpiry(cert)]
          \* the error of Save / Create is overwritten by json.Marshal's
          written == IF ~wok THEN cfg
                     ELSE IF isTLSCertificateExist(cfg, id)
                     THEN [cfg EXCEPT !.certs = SaveRow(@, certificateRecord)]
                     ELSE [cfg EXCEPT !.certs = CreateRow(@, certificateRecord)]
      IN IF verr # "" THEN Result(cfg, verr, Nil)
         ELSE Result(written, "",
                     [id |-> id, domain |-> r.domain, is_wildcard |-> r.is_wildcard,
                      cert |-> cert, expires_at |-> getCertExpiry(cert)])

\* TLSCertificateDeleteV1.Process
TLSCertificateDeleteProcess(cfg, r, wok) ==
    LET id == getTLSCertificateID(r.domain, r.is_wildcard)
    IN IF ~isTLSCertificateExist(cfg, id) THEN Result(cfg, "", Nil)
       ELSE IF wok THEN Result([cfg EXCEPT !.certs = DeleteById(@, id)], "", Nil)
       ELSE Result(cfg, "store error", Nil)

\* IngressRuleUpsertV1.Process
IngressRuleUpsertProcess(cfg, r, wok) ==
    IF r.bind_ip # "0.0.0.0"
    THEN Result(cfg, "currently only 0.0.0.0 is supported for bind_ip", Nil)
    ELSE IF r.port <= 0 \/ r.port > 65535
    THEN Result(cfg, "port is required and must be between 1 and 65535", Nil)
    ELSE IF (r.protocol = HTTP \/ r.is_tls) /\ r.domain = ""
    THEN Result(cfg, "domain is required for HTTP protocol", Nil)
    ELSE IF (r.protocol = HTTP \/ r.is_tls) /\ ~validateDomain(r.domain)
    THEN Result(cfg, "invalid domain", Nil)
    ELSE IF Len(r.backend_hosts) = 0
    THEN Result(cfg, "at least one backend host is required", Nil)
    ELSE IF r.backend_resolver = DNS_RESOLVER /\ r.backend_dns_resolver = ""
    THEN Result(cfg, "backend_dns_resolver is required for DNS resolver", Nil)
    ELSE IF \E k \in 1..Len(r.allowed_cidrs) : ~IsValidCIDR(r.allowed_cidrs[k])
    THEN Result(cfg, "invalid cidr in allowed_cidrs list", Nil)
    ELSE IF \E k \in 1..Len(r.denied_cidrs) : ~IsValidCIDR(r.denied_cidrs[k])
    THEN Result(cfg, "invalid cidr in denied_cidrs list", Nil)
    ELSE
      LET routePrefix == IF r.protocol = HTTP /\ r.route_prefix = "" THEN "/" ELSE r.route_prefix
          l == upsertListener(cfg, r.bind_ip, r.port, r.protocol, r.is_tls, wok)
      IN IF l.err # "" THEN Result(l.cfg, "failed to upsert listener: " \o l.err, Nil)
         ELSE
           \* the backend's is_tls argument is r.IsTLS
           LET b == upsertBackend(l.cfg, r.backend_resolver, r.backend_dns_resolver,
                                  r.backend_hosts, r.backend_port, r.is_tls,
                                  r.backend_sni_domain, wok)
           IN IF b.err # "" THEN Result(b.cfg, "failed to upsert backend: " \o b.err, Nil)
              ELSE
                LET i == upsertIngressRule(b.cfg, r.protocol, l.listener.id, r.domain,
                                           routePrefix, b.backend.id, r.allowed_cidrs,
                                           r.denied_cidrs, r.priority, wok)
                IN IF i.err # ""
                   THEN Result(i.cfg, "failed to upsert ingress rule: " \o i.err, Nil)
                   ELSE Result(i.cfg, "", i.rule)

\* IngressRuleDeleteV1.Process
IngressRuleDeleteProcess(cfg, r, wok) ==
    IF r.bind_ip # "0.0.0.0"
    THEN Result(cfg, "currently only 0.0.0.0 is supported for bind_ip", Nil)
    ELSE IF r.port <= 0 \/ r.port > 65535
    THEN Result(cfg, "port is required and must be between 1 and 65535", Nil)
    ELSE IF r.protocol = HTTP /\ ~validateDomain(r.domain)
    THEN Result(cfg, "invalid domain", Nil)
    ELSE
      LET routePrefix == IF r.protocol = HTTP /\ r.route_prefix = "" THEN "/" ELSE r.route_prefix
      IN deleteIngressRule(cfg, r.protocol, getListenerID(r.bind_ip, r.port), r.domain,
                           routePrefix, wok)

\* HTTPRedirectRuleUpsertV1.Process
HTTPRedirectRuleUpsertProcess(cfg, r, wok) ==
    IF r.bind_ip # "0.0.0.0"
    THEN Result(cfg, "currently only 0.0.0.0 is supported for bind_ip", Nil)
    ELSE IF r.port <= 0 \/ r.port > 65535
    THEN Result(cfg, "port is required and must be between 1 and 65535", Nil)
    ELSE IF ~validateDomain(r.domain)
    THEN Result(cfg, "invalid domain", Nil)
    ELSE
      LET routePrefix == IF r.route_prefix = "" THEN "/" ELSE r.route_prefix
          l == upsertListener(cfg, r.bind_ip, r.port, HTTP, r.is_tls, wok)
      IN IF l.err # "" THEN Result(l.cfg, "failed to upsert listener: " \o l.err, Nil)
         ELSE
           LET x == upsertHTTPRedirectRule(l.cfg, l.listener.id, r.domain, routePrefix,
                                           r.is_https_redirect, r.scheme_redirect,
                                           r.host_redirect, r.path_redirect,
                                           r.status_code, r.priority, wok)
           IN IF x.err # ""
              THEN Result(x.cfg, "failed to upsert redirect rule: " \o x.err, Nil)
              ELSE Result(x.cfg, "", x.rule)

\* HTTPRedirectRuleDeleteV1.Process
HTTPRedirectRuleDeleteProcess(cfg, r, wok) ==
    IF r.bind_ip # "0.0.0.0"
    THEN Result(cfg, "currently only 0.0.0.0 is supported for bind_ip", Nil)
    ELSE IF r.port <= 0 \/ r.port > 65535
    THEN Result(cfg, "port is required and must be between 1 and 65535", Nil)
    ELSE IF ~validateDomain(r.domain)
    THEN Result(cfg, "invalid domain", Nil)
    ELSE
      LET routePrefix == IF r.route_prefix = "" THEN "/" ELSE r.route_prefix
      IN deleteHTTPRedirectRule(cfg, getListenerID(r.bind_ip, r.port), r.domain,
                                routePrefix, r.is_https_redirect, wok)

-----------------------------------------------------------------------------
(* The event registry and the JSON conversions *)

EvTLSUpsert == "v1.tls_certificate.upsert"
EvTLSDelete == "v1.tls_certificate.delete"
EvIngressUpsert == "v1.ingress_rule.upsert"
EvIngressDelete == "v1.ingress_rule.delete"
EvRedirectUpsert == "v1.http_redirect_rule.upsert"
EvRedirectDelete == "v1.http_redirect_rule.delete"

CommonFields == {"request_id", "requested_at"}

\* EventToRequestTypeMapping: the JSON fields of each event's request type.
EventToRequestTypeMapping ==
    [e \in {EvTLSUpsert, EvTLSDelete, EvIngressUpsert, EvIngressDelete,
            EvRedirectUpsert, EvRedirectDelete} |->
        CommonFields \cup
        CASE e = EvTLSUpsert -> {"is_wildcard", "domain", "cert", "key"}
          [] e = EvTLSDelete -> {"domain", "is_wildcard"}
          [] e = EvIngressUpsert ->
                {"priority", "bind_ip", "port", "protocol", "is_tls", "domain",
                 "route_prefix", "allowed_cidrs", "denied_cidrs", "backend_resolver",
                 "backend_dns_resolver", "backend_hosts", "backend_port",
                 "backend_is_tls", "backend_sni_domain"}
          [] e = EvIngressDelete -> {"bind_ip", "port", "protocol", "domain", "route_prefix"}
          [] e = EvRedirectUpsert ->
                {"priority", "bind_ip", "port", "is_tls", "domain", "route_prefix",
                 "is_https_redirect", "scheme_redirect", "host_redirect",
                 "path_redirect", "status_code"}
          [] e = EvRedirectDelete ->
                {"bind_ip", "port", "domain", "route_prefix", "is_https_redirect",
                 "scheme_redirect", "host_redirect", "path_redirect", "status_code"}]

\* The zero value of a request field's Go type.
ZeroValue(f) ==
    IF f \in {"requested_at", "priority", "port", "backend_port", "status_code"} THEN 0
    ELSE IF f \in {"is_wildcard", "is_tls", "backend_is_tls", "is_https_redirect"} THEN FALSE
    ELSE IF f \in {"allowed_cidrs", "denied_cidrs", "backend_hosts"} THEN <<>>
    ELSE IF f \in {"cert", "key"} THEN EmptyPEM
    ELSE ""

NotJSON == [raw |-> "not json"]

\* json.Unmarshal into the request type: the fields the object carries are
\* set, the others keep their zero value, unknown keys are dropped.
Unmarshal(fields, data) ==
    [f \in fields |-> IF f \in DOMAIN data THEN data[f] ELSE ZeroValue(f)]

\* json.Marshal of a request: an object with every field of the type; a
\* StringList is written sorted (StringList.MarshalJSON).
Marshal(request) ==
    [f \in DOMAIN request |->
        IF f \in {"allowed_cidrs", "denied_cidrs", "backend_hosts"}
        THEN SortStrings(request[f])
        ELSE request[f]]

\* parseEvent: [isParsed, requestID, requestedAt, message, err]
parseEvent(event, data) ==
    IF event \notin DOMAIN EventToRequestTypeMapping
    THEN [isParsed |-> FALSE, requestID |-> "", requestedAt |-> Nil, message |-> Nil,
          err |-> "unknown event: " \o event]
    ELSE IF data = NotJSON
    THEN [isParsed |-> FALSE, requestID |-> "", requestedAt |-> Nil, message |-> Nil,
          err |-> "failed to unmarshal event"]
    ELSE LET request == Unmarshal(EventToRequestTypeMapping[event], data)
         IN IF request.request_id = ""
            THEN [isParsed |-> FALSE, requestID |-> "", requestedAt |-> Nil,
                  message |-> Nil, err |-> "missing or empty RequestID"]
            ELSE IF request.requested_at = 0
            THEN [isParsed |-> FALSE, requestID |-> "", requestedAt |-> Nil,
                  message |-> Nil, err |-> "missing or zero RequestedAt"]
            ELSE [isParsed |-> TRUE, requestID |-> request.request_id,
                  requestedAt |-> request.requested_at, message |-> request, err |-> ""]

\* request.Process(db): the dispatch on the request's type.
Process(event, cfg, r, wok) ==
    CASE event = EvTLSUpsert -> TLSCertificateUpsertProcess(cfg, r, wok)
      [] event = EvTLSDelete -> TLSCertificateDeleteProcess(cfg, r, wok)
      [] event = EvIngressUpsert -> IngressRuleUpsertProcess(cfg, r, wok)
      [] event = EvIngressDelete -> IngressRuleDeleteProcess(cfg, r, wok)
      [] event = EvRedirectUpsert -> HTTPRedirectRuleUpsertProcess(cfg, r, wok)
      [] event = EvRedirectDelete -> HTTPRedirectRuleDeleteProcess(cfg, r, wok)

\* The first assignments of processMessage without the processed_at stamp
\* (faulty variant).
MarkProcessedUnstamped(msg) ==
    [msg EXCEPT !.success = FALSE, !.processed = TRUE,
                !.response_payload = EmptyObject, !.error_message = ""]

\* The first assignments of processMessage stamping queued_at as well
\* (faulty variant).
MarkProcessedRequeued(msg) ==
    [msg EXCEPT !.queued_at = clock, !.processed_at = clock, !.success = FALSE,
                !.processed = TRUE, !.response_payload = EmptyObject, !.error_message = ""]

\* The first assignments of processMessage: the row stamped and marked
\* processed, its outcome reset.
MarkProcessed(msg) ==
    [msg EXCEPT !.processed_at = clock, !.success = FALSE, !.processed = TRUE,
                !.response_payload = EmptyObject, !.error_message = ""]

\* processMessage: the transaction's view [messages, cfg] after the message,
\* a row fetched through the read-only handle, has been handled and saved.
\* sok: the store accepts the Save of the message row.
processMessage(view, msg, wok, sok) ==
    LET base == MarkProcessed(msg)
        parsed == parseEvent(msg.event, msg.request_payload)
        res == Process(msg.event, view.cfg, parsed.message, wok)
        out == IF msg.event \notin DOMAIN EventToRequestTypeMapping
               THEN [row |-> [base EXCEPT !.error_message = "unknown event: " \o msg.event],
                     cfg |-> view.cfg]
               ELSE IF ~parsed.isParsed \/ parsed.err # ""
               THEN [row |-> [base EXCEPT !.error_message = "failed to parse event: " \o parsed.err],
                     cfg |-> view.cfg]
               ELSE IF res.err # ""
               THEN [row |-> [base EXCEPT !.error_message = "failed to process request: " \o res.err],
                     cfg |-> res.cfg]
               ELSE [row |-> [base EXCEPT !.success = TRUE,
                                          !.response_payload =
                                              IF res.reply # Nil THEN res.reply ELSE EmptyObject],
                     cfg |-> res.cfg]
    IN [messages |-> IF sok THEN [view.messages EXCEPT ![msg.id] = out.row]
                     ELSE view.messages,
        cfg |-> out.cfg]

\* uniqueSortedStrings, as a set: the ids a table's column holds.
Pluck(table, column) == {row[column] : row \in table}

\* cleanupUnusedBackendsAndListeners deleting also when no id is referenced
\* (faulty variant).
cleanupUnguarded(cfg) ==
    LET allListenerIDs == Pluck(cfg.ingress, "listener_id") \cup Pluck(cfg.redirects, "listener_id")
        allBackendIDs == Pluck(cfg.ingress, "backend_id")
    IN [cfg EXCEPT !.backends = {b \in @ : b.id \in allBackendIDs},
                   !.listeners = {l \in @ : l.id \in allListenerIDs}]

\* The cleanup collecting the listener ids of the ingress rules only (faulty
\* variant).
cleanupIgnoringRedirects(cfg) ==
    LET allListenerIDs == Pluck(cfg.ingress, "listener_id")
        allBackendIDs == Pluck(cfg.ingress, "backend_id")
        afterBackends == IF allBackendIDs # {}
                         THEN [cfg EXCEPT !.backends = {b \in @ : b.id \in allBackendIDs}]
                         ELSE cfg
    IN IF allListenerIDs # {}
       THEN [afterBackends EXCEPT !.listeners = {l \in @ : l.id \in allListenerIDs}]
       ELSE afterBackends

\* cleanupUnusedBackendsAndListeners
cleanupUnusedBackendsAndListeners(cfg) ==
    LET allListenerIDs == Pluck(cfg.ingress, "listener_id") \cup Pluck(cfg.redirects, "listener_id")
        allBackendIDs == Pluck(cfg.ingress, "backend_id")
        afterBackends == IF allBackendIDs # {}
                         THEN [cfg EXCEPT !.backends = {b \in @ : b.id \in allBackendIDs}]
                         ELSE cfg
    IN IF allListenerIDs # {}
       THEN [afterBackends EXCEPT !.listeners = {l \in @ : l.id \in allListenerIDs}]
       ELSE afterBackends

-----------------------------------------------------------------------------
(* The requests of the model *)

Subject(event) == [prefix |-> IncomingStreamPrefix, rest |-> event]

\* A request envelope with its request_id and a non-zero requested_at.
Envelope(event, rid, fields) ==
    [subject |-> Subject(event),
     data |-> fields @@ [request_id |-> rid, requested_at |-> 1]]

IngressBase ==
    [priority |-> 1, bind_ip |-> "0.0.0.0", port |-> 80, protocol |-> HTTP,
     is_tls |-> FALSE, domain |-> "a.io", backend_resolver |-> STATIC_RESOLVER,
     backend_hosts |-> <<"b", "a">>, backend_port |-> 8080]

RedirectBase ==
    [priority |-> 1, bind_ip |-> "0.0.0.0", port |-> 80, domain |-> "a.io",
     is_https_redirect |-> TRUE, scheme_redirect |-> "https"]

PEM(body) == [body |-> body, escaped |-> TRUE, trailing |-> FALSE]

\* The requests the handlers are exercised with: <<event, JSON fields>>.
HandlerCatalogue ==
    { <<EvIngressUpsert, IngressBase @@ [allowed_cidrs |-> <<"192.168.1.0/24", "10.0.0.0/8">>]>>,
      <<EvIngressUpsert, [domain |-> "b.io", backend_hosts |-> <<"a", "b">>] @@ IngressBase>>,
      <<EvIngressUpsert, [priority |-> 2, backend_hosts |-> <<"a">>,
                          denied_cidrs |-> <<"10.0.0.0/8">>] @@ IngressBase>>,
      <<EvIngressUpsert, [port |-> 443, protocol |-> TCP, is_tls |-> TRUE,
                          backend_hosts |-> <<"a">>] @@ IngressBase>>,
      <<EvIngressUpsert, [port |-> 443, protocol |-> TCP, is_tls |-> TRUE, priority |-> 2,
                          domain |-> "b.io", backend_hosts |-> <<"a">>] @@ IngressBase>>,
      <<EvIngressUpsert, [port |-> 443, is_tls |-> TRUE] @@ IngressBase>>,
      <<EvIngressUpsert, [is_tls |-> TRUE] @@ IngressBase>>,
      <<EvIngressUpsert, [domain |-> "a_b"] @@ IngressBase>>,
      <<EvIngressUpsert, [allowed_cidrs |-> <<"bad">>] @@ IngressBase>>,
      <<EvIngressUpsert, [bind_ip |-> "0.0.0.0", port |-> 80, backend_hosts |-> <<"a">>,
                          backend_resolver |-> STATIC_RESOLVER, backend_port |-> 8080]>>,
      <<EvIngressUpsert, [bind_ip |-> "0.0.0.0", port |-> 80, protocol |-> HTTP,
                          domain |-> "b.io", backend_hosts |-> <<"b", "a">>,
                          backend_port |-> 8080, priority |-> 1]>>,
      <<EvIngressDelete, [bind_ip |-> "0.0.0.0", port |-> 80, protocol |-> HTTP,
                          domain |-> "a.io"]>>,
      <<EvIngressDelete, [bind_ip |-> "0.0.0.0", port |-> 443, protocol |-> TCP]>>,
      <<EvRedirectUpsert, RedirectBase>>,
      <<EvRedirectUpsert, [priority |-> 2, status_code |-> 302, host_redirect |-> "b.io"]
                          @@ RedirectBase>>,
      <<EvRedirectDelete, [bind_ip |-> "0.0.0.0", port |-> 80, domain |-> "a.io",
                           is_https_redirect |-> TRUE]>>,
      <<EvTLSUpsert, [domain |-> "a.io", cert |-> PEM("certA"), key |-> PEM("keyA")]>>,
      <<EvTLSUpsert, [domain |-> "a.io", cert |-> PEM("certB"), key |-> PEM("keyB")]>>,
      <<EvTLSUpsert, [domain |-> "a.io", cert |-> PEM("certA"), key |-> PEM("keyB")]>>,
      <<EvTLSDelete, [domain |-> "a.io"]>>,
      <<EvTLSUpsert, [domain |-> "a.io", is_wildcard |-> TRUE,
                      cert |-> PEM("certA"), key |-> PEM("keyA")]>>,
      <<EvTLSUpsert, [domain |-> "*.a.io", cert |-> PEM("certB"), key |-> PEM("keyB")]>>,
      <<EvTLSDelete, [domain |-> "*.a.io"]>>,
      <<EvIngressUpsert, [port |-> 8080, protocol |-> "udp"] @@ IngressBase>>,
      <<EvRedirectUpsert, [status_code |-> 200] @@ RedirectBase>> }

\* The deliveries the pipeline is exercised with: well-formed requests and
\* poison messages, <<subject, data>>.
PipelineCatalogue ==
    { <<Subject(EvIngressUpsert), IngressBase @@ [requested_at |-> 1]>>,
      <<Subject(EvIngressUpsert), [domain |-> "a_b", requested_at |-> 1] @@ IngressBase>>,
      <<Subject(EvIngressDelete), [bind_ip |-> "0.0.0.0", port |-> 80, protocol |-> HTTP,
                                   domain |-> "a.io", requested_at |-> 1]>>,
      <<Subject("v1.unknown.event"), [request_id |-> "r1", requested_at |-> 1]>>,
      <<[prefix |-> "proxy.", rest |-> ""], [request_id |-> "r1", requested_at |-> 1]>>,
      <<Subject(EvTLSDelete), [domain |-> "a.io"]>>,
      <<Subject(EvTLSDelete), [domain |-> "a.io", request_id |-> "r1", requested_at |-> 0]>>,
      <<Subject(EvTLSDelete), NotJSON>> }

RequestIDs == {"r1", "r2"}

\* The sequences over S of length 1..n.
RECURSIVE SeqsUpTo(_, _)
SeqsUpTo(S, n) ==
    IF n = 0 THEN {<<>>}
    ELSE LET shorter == SeqsUpTo(S, n - 1)
         IN shorter \cup {Append(q, x) : q \in {t \in shorter : Len(t) = n - 1}, x \in S}

\* The streams of SpecHandlers: the i-th request carries request_id r<i>.
HandlerStreams ==
    { [i \in 1..Len(q) |-> Envelope(q[i][1], "r" \o ToString(i), q[i][2])] :
        q \in SeqsUpTo(HandlerCatalogue, MaxPublished) \ {<<>>} }

\* The streams of Spec: every delivery carries one of RequestIDs, so that two
\* deliveries may share (event, request_id); a poison message keeps its data.
WithRequestID(data, rid) ==
    IF data = NotJSON \/ "requested_at" \notin DOMAIN data THEN data
    ELSE data @@ [request_id |-> rid]

\* Whether StoreMessage finds a delivery malformed: no event in the subject,
\* an event outside the registry, or a payload parseEvent refuses.
Poison(msg) ==
    \/ Len(msg.subject.prefix) + Len(msg.subject.rest) < Len(IncomingStreamPrefix)
    \/ msg.subject.rest \notin DOMAIN EventToRequestTypeMapping
    \/ msg.data = NotJSON
    \/ "request_id" \notin DOMAIN msg.data
    \/ msg.data.request_id = ""
    \/ "requested_at" \notin DOMAIN msg.data
    \/ msg.data.requested_at = 0

PipelineStreams ==
    { [i \in 1..Len(q) |-> [subject |-> q[i][1][1], data |-> WithRequestID(q[i][1][2], q[i][2])]] :
        q \in SeqsUpTo(PipelineCatalogue \X RequestIDs, MaxPublished) \ {<<>>} }

-----------------------------------------------------------------------------
(* Initial states *)

NoLast == <<>>

\* The tasks main starts, in the order of its go statements.
TaskOrder == <<"ListenToStream", "StoreRequestsAndAcknowledge", "ProcessRequests",
               "SendResponsesToQueue">>

Tasks == {TaskOrder[k] : k \in 1..Len(TaskOrder)}

\* Every task has started and main waits for the signal.
AllRunning ==
    /\ mainPc = "waitSignal"
    /\ taskPc = [t \in Tasks |-> "running"]
    /\ wg = Cardinality(Tasks)
    /\ cancelled = FALSE

\* Every task has started, ListenToStream is in its retry loop, and main
\* waits for the signal.
Connecting ==
    /\ mainPc = "waitSignal"
    /\ taskPc = [t \in Tasks |-> IF t = "ListenToStream" THEN "connecting" ELSE "running"]
    /\ wg = Cardinality(Tasks)
    /\ cancelled = FALSE

\* Nothing delivered, stored, processed or published yet.
InitPipeline ==
    /\ consumer = [i \in 1..Len(stream) |->
                      [delivered |-> 0, acked |-> FALSE, ackCalls |-> 0, nakCalls |-> 0]]
    /\ natsChan = <<>>
    /\ ingestBatch = <<>>
    /\ dbMessages = <<>>
    /\ dbCfg = EmptyCfg
    /\ procPc = "fetch"
    /\ procMessages = <<>>
    /\ procIdx = 1
    /\ tx = NoTx
    /\ pubPc = "fetch"
    /\ pubMessages = <<>>
    /\ responsePayloads = <<>>
    /\ ackedMessages = <<>>
    /\ pubIdx = 1
    /\ replies = <<>>
    /\ hasPendingProxyChanges = FALSE
    /\ clock = 1
    /\ hist = [last |-> NoLast, publishFailed |-> FALSE, unseen |-> FALSE]

InitCommon ==
    /\ AllRunning
    /\ InitPipeline

Init ==
    /\ stream \in PipelineStreams
    /\ faults = MaxFaults
    /\ InitCommon

InitHandlers ==
    /\ stream \in HandlerStreams
    /\ faults = 0
    /\ InitCommon

\* The requests a listener's release is exercised with: a rule on
\* 0.0.0.0:80, its delete, a TCP rule asking for the same listener, and a
\* rule on another listener.
ListenerCatalogue ==
    { <<EvIngressUpsert, IngressBase>>,
      <<EvIngressDelete, [bind_ip |-> "0.0.0.0", port |-> 80, protocol |-> HTTP,
                          domain |-> "a.io"]>>,
      <<EvIngressUpsert, [protocol |-> TCP, backend_hosts |-> <<"a">>] @@ IngressBase>>,
      <<EvIngressUpsert, [port |-> 443, domain |-> "b.io"] @@ IngressBase>> }

ListenerStreams ==
    { [i \in 1..Len(q) |-> Envelope(q[i][1], "r" \o ToString(i), q[i][2])] :
        q \in SeqsUpTo(ListenerCatalogue, MaxListenerRequests) \ {<<>>} }

InitListeners ==
    /\ stream \in ListenerStreams
    /\ faults = 0
    /\ InitCommon

\* The k-th request of a backlog: the delete of a certificate that is absent.
BacklogRequest(k) == Envelope(EvTLSDelete, "r" \o ToString(k), [domain |-> "a.io"])

\* The row of the k-th request of a backlog once stored and processed: the
\* delete has succeeded without a reply payload.
BacklogRow(k) ==
    [id |-> k, event |-> EvTLSDelete, request_id |-> "r" \o ToString(k),
     request_payload |-> Marshal(parseEvent(EvTLSDelete, BacklogRequest(k).data).message),
     response_payload |-> EmptyObject, error_message |-> "", success |-> TRUE,
     processed |-> TRUE, replied |-> FALSE, requested_at |-> 1, queued_at |-> k,
     processed_at |-> k + 1]

\* A backlog of processed rows no reply has been published for: every request
\* delivered, acked, stored and committed, the publisher about to query.
InitBacklog ==
    /\ \E n \in {MaxPending - 1, MaxPending} :
          /\ stream = [k \in 1..n |-> BacklogRequest(k)]
          /\ consumer = [k \in 1..n |->
                            [delivered |-> 1, acked |-> TRUE, ackCalls |-> 1, nakCalls |-> 0]]
          /\ dbMessages = [k \in 1..n |-> BacklogRow(k)]
          /\ clock = n + 1
    /\ AllRunning
    /\ faults = 0
    /\ natsChan = <<>>
    /\ ingestBatch = <<>>
    /\ dbCfg = EmptyCfg
    /\ procPc = "fetch"
    /\ procMessages = <<>>
    /\ procIdx = 1
    /\ tx = NoTx
    /\ pubPc = "fetch"
    /\ pubMessages = <<>>
    /\ responsePayloads = <<>>
    /\ ackedMessages = <<>>
    /\ pubIdx = 1
    /\ replies = <<>>
    /\ hasPendingProxyChanges = TRUE
    /\ hist = [last |-> [event |-> EvTLSDelete, body |-> [f \in DOMAIN BacklogRow(1).request_payload \ CommonFields |->
                                      BacklogRow(1).request_payload[f]],
                         success |-> TRUE],
               publishFailed |-> FALSE, unseen |-> TRUE]

\* The streams of SpecPublisher: an accepted and a rejected request.
PublisherStreams ==
    { [i \in 1..Len(q) |-> Envelope(EvIngressUpsert, "r" \o ToString(i), q[i])] :
        q \in SeqsUpTo({IngressBase, [domain |-> "a_b"] @@ IngressBase}, MaxPublished) \ {<<>>} }

InitPublisher ==
    /\ stream \in PublisherStreams
    /\ faults = MaxFaults
    /\ InitCommon

InitStoreFaults ==
    /\ stream \in HandlerStreams
    /\ faults = MaxFaults
    /\ InitCommon

\* main after NewManager: no task started yet, nothing published.
InitShutdown ==
    /\ stream = <<>>
    /\ faults = 0
    /\ consumer = <<>>
    /\ natsChan = <<>>
    /\ ingestBatch = <<>>
    /\ dbMessages = <<>>
    /\ dbCfg = EmptyCfg
    /\ procPc = "fetch"
    /\ procMessages = <<>>
    /\ procIdx = 1
    /\ tx = NoTx
    /\ pubPc = "fetch"
    /\ pubMessages = <<>>
    /\ responsePayloads = <<>>
    /\ ackedMessages = <<>>
    /\ pubIdx = 1
    /\ replies = <<>>
    /\ hasPendingProxyChanges = FALSE
    /\ clock = 1
    /\ hist = [last |-> NoLast, publishFailed |-> FALSE, unseen |-> FALSE]
    /\ mainPc = "spawn"
    /\ taskPc = [t \in Tasks |-> "unspawned"]
    /\ wg = 0
    /\ cancelled = FALSE

-----------------------------------------------------------------------------
(* The broker's durable consumer proxy-<agent> *)

\* The first delivery of the next stream message into NATSMessageChan, once
\* ListenToStream has subscribed and until it unsubscribes.
Deliver ==
    /\ taskPc["ListenToStream"] = "running"
    /\ \E i \in 1..Len(stream) :
          /\ consumer[i].delivered = 0
          /\ \A j \in 1..(i - 1) : consumer[j].delivered > 0
          /\ Len(natsChan) < ChanCapacity
          /\ natsChan' = Append(natsChan, i)
          /\ consumer' = [consumer EXCEPT ![i].delivered = 1]
    /\ UNCHANGED lifecycle
    /\ UNCHANGED <<stream, ingestBatch, dbMessages, dbCfg, procPc, procMessages, procIdx,
                   tx, pubPc, pubMessages, responsePayloads, ackedMessages, pubIdx,
                   replies, hasPendingProxyChanges, clock, faults, hist>>

\* A delivered message that the broker has no ack for is delivered again
\* (after a nak, or when ack-wait expires).
Redeliver ==
    /\ taskPc["ListenToStream"] = "running"
    /\ \E i \in 1..Len(stream) :
          /\ consumer[i].delivered > 0
          /\ consumer[i].delivered <= MaxRedeliver
          /\ ~consumer[i].acked
          /\ Len(natsChan) < ChanCapacity
          /\ natsChan' = Append(natsChan, i)
          /\ consumer' = [consumer EXCEPT ![i].delivered = @ + 1]
    /\ UNCHANGED lifecycle
    /\ UNCHANGED <<stream, ingestBatch, dbMessages, dbCfg, procPc, procMessages, procIdx,
                   tx, pubPc, pubMessages, responsePayloads, ackedMessages, pubIdx,
                   replies, hasPendingProxyChanges, clock, faults, hist>>

-----------------------------------------------------------------------------
(* Ingest worker: StoreRequestsAndAcknowledge *)

\* ParseEventTypeFromSubject: the subject from byte len(prefix) on.
ParseEventTypeFromSubject(subject) ==
    IF Len(subject.prefix) + Len(subject.rest) < Len(IncomingStreamPrefix) THEN ""
    ELSE subject.rest

\* IsMessageExist answering false always (faulty variant).
IsMessageExistNever(messages, event, requestID) == FALSE

\* IsMessageExist
IsMessageExist(messages, event, requestID) ==
    \E k \in 1..Len(messages) :
        messages[k].event = event /\ messages[k].request_id = requestID

\* ReadAllMessagesOfChannel: the channel is drained into the local list.
IngestDrain ==
    /\ ~cancelled
    /\ ingestBatch = <<>>
    /\ natsChan # <<>>
    /\ ingestBatch' = natsChan
    /\ natsChan' = <<>>
    /\ UNCHANGED lifecycle
    /\ UNCHANGED <<stream, consumer, dbMessages, dbCfg, procPc, procMessages, procIdx,
                   tx, pubPc, pubMessages, responsePayloads, ackedMessages, pubIdx,
                   replies, hasPendingProxyChanges, clock, faults, hist>>

\* StoreMessage taking a delivery it cannot parse for a new request (faulty
\* variant).
StoreDecisionKeepPoison(msg) ==
    LET event == ParseEventTypeFromSubject(msg.subject)
        parsed == parseEvent(event, msg.data)
    IN IF IsMessageExist(dbMessages, event, parsed.requestID) THEN "dup" ELSE "insert"

\* What StoreMessage does with a delivery: "drop" (ack, nothing stored),
\* "dup" (ack, already stored) or "insert".
StoreDecision(msg) ==
    LET event == ParseEventTypeFromSubject(msg.subject)
        parsed == parseEvent(event, msg.data)
    IN IF Len(event) = 0 THEN "drop"
       ELSE IF ~parsed.isParsed \/ parsed.err # "" THEN "drop"
       ELSE IF IsMessageExist(dbMessages, event, parsed.requestID) THEN "dup"
       ELSE "insert"

\* The Message row StoreMessage inserts.
NewMessageRow(msg) ==
    LET event == ParseEventTypeFromSubject(msg.subject)
        parsed == parseEvent(event, msg.data)
    IN [id |-> Len(dbMessages) + 1, event |-> event, request_id |-> parsed.requestID,
        request_payload |-> Marshal(parsed.message), response_payload |-> EmptyObject,
        error_message |-> "", success |-> FALSE, processed |-> FALSE, replied |-> FALSE,
        requested_at |-> parsed.requestedAt, queued_at |-> clock, processed_at |-> 0]

\* StoreMessage on the next message of the drained list, every store call and
\* the ack succeeding.  The insert goes through the read-write handle, whose
\* single connection the processor's transaction holds while it is open.
StoreMessage ==
    /\ ingestBatch # <<>>
    /\ LET i == Head(ingestBatch)
           d == StoreDecision(stream[i])
       IN /\ d = "insert" => tx = NoTx
          /\ dbMessages' = IF d = "insert" THEN Append(dbMessages, NewMessageRow(stream[i]))
                           ELSE dbMessages
          /\ clock' = IF d = "insert" THEN clock + 1 ELSE clock
          /\ consumer' = [consumer EXCEPT ![i].acked = TRUE, ![i].ackCalls = @ + 1]
    /\ ingestBatch' = Tail(ingestBatch)
    /\ UNCHANGED lifecycle
    /\ UNCHANGED <<stream, natsChan, dbCfg, procPc, procMessages, procIdx, tx, pubPc,
                   pubMessages, responsePayloads, ackedMessages, pubIdx, replies,
                   hasPendingProxyChanges, faults, hist>>

\* msg.Ack() where StoreMessage calls msg.Nak() (faulty variant).
OnStoreErrorAck(con) == [con EXCEPT !.acked = TRUE, !.ackCalls = @ + 1]

\* msg.Nak() after a failed lookup or insert.
OnStoreError(con) == [con EXCEPT !.nakCalls = @ + 1]

\* StoreMessage with a failure: the existence lookup fails (nak), the insert
\* fails (nak), or the row is inserted and the ack does not reach the broker.
StoreMessageFault ==
    /\ ingestBatch # <<>>
    /\ faults > 0
    /\ LET i == Head(ingestBatch)
           d == StoreDecision(stream[i])
       IN \E failure \in {"lookup", "insert", "ack"} :
             /\ failure = "lookup" => d \in {"dup", "insert"}
             /\ failure = "insert" => d = "insert"
             /\ (d = "insert" /\ failure # "lookup") => tx = NoTx
             /\ dbMessages' = IF failure = "ack" /\ d = "insert"
                              THEN Append(dbMessages, NewMessageRow(stream[i]))
                              ELSE dbMessages
             /\ clock' = IF failure = "ack" /\ d = "insert" THEN clock + 1 ELSE clock
             /\ consumer' = IF failure = "ack"
                            THEN [consumer EXCEPT ![i].ackCalls = @ + 1]
                            ELSE [consumer EXCEPT ![i] = OnStoreError(@)]
    /\ ingestBatch' = Tail(ingestBatch)
    /\ faults' = faults - 1
    /\ UNCHANGED lifecycle
    /\ UNCHANGED <<stream, natsChan, dbCfg, procPc, procMessages, procIdx, tx, pubPc,
                   pubMessages, responsePayloads, ackedMessages, pubIdx, replies,
                   hasPendingProxyChanges, hist>>

-----------------------------------------------------------------------------
(* Request processor: ProcessRequests *)

\* The fetch without its filter (faulty variant).
UnprocessedOrNot(row) == TRUE

\* Where("processed = ?", false)
Unprocessed(row) == ~row.processed

\* The first n elements of a sequence.
Limit(q, n) == SubSeq(q, 1, IF Len(q) < n THEN Len(q) ELSE n)

\* The sequence in reverse.
Reverse(q) == [k \in 1..Len(q) |-> q[Len(q) + 1 - k]]

\* The rows ordered by queued_at ascending (insertion sort; equal values keep
\* the table's order).
RECURSIVE OrderByQueuedAt(_)
OrderByQueuedAt(q) ==
    IF q = <<>> THEN <<>>
    ELSE LET rest == OrderByQueuedAt(Tail(q))
             before == SelectSeq(rest, LAMBDA r : r.queued_at < Head(q).queued_at)
             after == SelectSeq(rest, LAMBDA r : r.queued_at >= Head(q).queued_at)
         IN before \o <<Head(q)>> \o after

\* The fetch ordering queued_at descending (faulty variant).
FetchUnprocessedNewestFirst(messages) ==
    Limit(Reverse(OrderByQueuedAt(SelectSeq(messages, Unprocessed))), ProcessBatchLimit)

\* Where("processed = ?", false).Order("queued_at asc").Limit(100)
FetchUnprocessed(messages) ==
    Limit(OrderByQueuedAt(SelectSeq(messages, Unprocessed)), ProcessBatchLimit)

\* The fetch failing and the flag raised all the same (faulty variant).
ProcFetchFaultBroadcast ==
    /\ procPc = "fetch"
    /\ faults > 0
    /\ faults' = faults - 1
    /\ hasPendingProxyChanges' = TRUE
    /\ UNCHANGED lifecycle
    /\ UNCHANGED <<stream, consumer, natsChan, ingestBatch, dbMessages, dbCfg, procPc,
                   procMessages, procIdx, tx, pubPc, pubMessages, responsePayloads,
                   ackedMessages, pubIdx, replies, clock, hist>>

\* The fetch fails: logged, the loop sleeps and continues.
ProcFetchFault ==
    /\ ~cancelled
    /\ procPc = "fetch"
    /\ faults > 0
    /\ faults' = faults - 1
    /\ UNCHANGED lifecycle
    /\ UNCHANGED <<stream, consumer, natsChan, ingestBatch, dbMessages, dbCfg, procPc,
                   procMessages, procIdx, tx, pubPc, pubMessages, responsePayloads,
                   ackedMessages, pubIdx, replies, hasPendingProxyChanges, clock, hist>>

\* The batch is fetched through the read-only handle.
ProcFetch ==
    /\ ~cancelled
    /\ procPc = "fetch"
    /\ FetchUnprocessed(dbMessages) # <<>>
    /\ procMessages' = FetchUnprocessed(dbMessages)
    /\ procPc' = "begin"
    /\ UNCHANGED lifecycle
    /\ UNCHANGED <<stream, consumer, natsChan, ingestBatch, dbMessages, dbCfg, procIdx, tx,
                   pubPc, pubMessages, responsePayloads, ackedMessages, pubIdx, replies,
                   hasPendingProxyChanges, clock, faults, hist>>

\* ReadWriteDB.Begin(): the transaction sees the committed tables.
ProcBegin ==
    /\ procPc = "begin"
    /\ tx = NoTx
    /\ tx' = [messages |-> dbMessages, cfg |-> dbCfg]
    /\ procIdx' = 1
    /\ procPc' = "process"
    /\ UNCHANGED lifecycle
    /\ UNCHANGED <<stream, consumer, natsChan, ingestBatch, dbMessages, dbCfg, procMessages,
                   pubPc, pubMessages, responsePayloads, ackedMessages, pubIdx, replies,
                   hasPendingProxyChanges, clock, faults, hist>>

\* What the history keeps of a handled message: its event, its request
\* without the envelope fields, and its outcome.
Body(payload) == [f \in DOMAIN payload \ CommonFields |-> payload[f]]

\* processMessage(tx, &msg) on the next message of the batch.
ProcMessage ==
    /\ procPc = "process"
    /\ procIdx <= Len(procMessages)
    /\ tx' = processMessage(tx, procMessages[procIdx], TRUE, TRUE)
    /\ procIdx' = procIdx + 1
    /\ hist' = [hist EXCEPT !.last =
                   [event |-> procMessages[procIdx].event,
                    body |-> Body(procMessages[procIdx].request_payload),
                    success |-> tx'.messages[procMessages[procIdx].id].success]]
    /\ UNCHANGED lifecycle
    /\ UNCHANGED <<stream, consumer, natsChan, ingestBatch, dbMessages, dbCfg, procPc,
                   procMessages, pubPc, pubMessages, responsePayloads, ackedMessages,
                   pubIdx, replies, hasPendingProxyChanges, clock, faults>>

\* processMessage(tx, &msg) while the store refuses the handler's writes.
ProcMessageFault ==
    /\ procPc = "process"
    /\ procIdx <= Len(procMessages)
    /\ faults > 0
    /\ faults' = faults - 1
    /\ tx' = processMessage(tx, procMessages[procIdx], FALSE, TRUE)
    /\ procIdx' = procIdx + 1
    /\ hist' = [hist EXCEPT !.last =
                   [event |-> procMessages[procIdx].event,
                    body |-> Body(procMessages[procIdx].request_payload),
                    success |-> tx'.messages[procMessages[procIdx].id].success]]
    /\ UNCHANGED lifecycle
    /\ UNCHANGED <<stream, consumer, natsChan, ingestBatch, dbMessages, dbCfg, procPc,
                   procMessages, pubPc, pubMessages, responsePayloads, ackedMessages,
                   pubIdx, replies, hasPendingProxyChanges, clock>>

\* cleanupUnusedBackendsAndListeners(tx), tx.Commit() succeeding, and
\* BroadcastChangesToProxies().
ProcCommit ==
    /\ procPc = "process"
    /\ procIdx > Len(procMessages)
    /\ dbMessages' = tx.messages
    /\ dbCfg' = cleanupUnusedBackendsAndListeners(tx.cfg)
    /\ tx' = NoTx
    /\ hasPendingProxyChanges' = TRUE
    /\ procMessages' = <<>>
    /\ procIdx' = 1
    /\ procPc' = "fetch"
    /\ hist' = [hist EXCEPT !.unseen = TRUE]
    /\ UNCHANGED lifecycle
    /\ UNCHANGED <<stream, consumer, natsChan, ingestBatch, pubPc, pubMessages,
                   responsePayloads, ackedMessages, pubIdx, replies, clock, faults>>

\* tx.Commit() failing with the message updates kept (faulty variant).
ProcCommitFaultPartial ==
    /\ procPc = "process"
    /\ procIdx > Len(procMessages)
    /\ faults > 0
    /\ faults' = faults - 1
    /\ dbMessages' = tx.messages
    /\ tx' = NoTx
    /\ procIdx' = 1
    /\ procPc' = "fetch"
    /\ hist' = [hist EXCEPT !.last = NoLast]
    /\ UNCHANGED lifecycle
    /\ UNCHANGED <<stream, consumer, natsChan, ingestBatch, dbCfg, procMessages,
                   pubPc, pubMessages, responsePayloads, ackedMessages, pubIdx, replies,
                   hasPendingProxyChanges, clock>>

\* tx.Commit() failing: nothing of the transaction is kept.
ProcCommitFault ==
    /\ procPc = "process"
    /\ procIdx > Len(procMessages)
    /\ faults > 0
    /\ faults' = faults - 1
    /\ tx' = NoTx
    /\ procIdx' = 1
    /\ procPc' = "fetch"
    /\ hist' = [hist EXCEPT !.last = NoLast]
    /\ UNCHANGED lifecycle
    /\ UNCHANGED <<stream, consumer, natsChan, ingestBatch, dbMessages, dbCfg, procMessages,
                   pubPc, pubMessages, responsePayloads, ackedMessages, pubIdx, replies,
                   hasPendingProxyChanges, clock>>

-----------------------------------------------------------------------------
(* Reply publisher: SendResponsesToQueue *)

\* Any row at all (faulty variant of the query's filter).
AnyRow(row) == TRUE

\* The filter taking only the rows of accepted requests (faulty variant).
ProcessedUnrepliedAccepted(row) == row.processed /\ ~row.replied /\ row.success

\* Where("processed = ? AND replied = ?", true, false)
ProcessedUnreplied(row) == row.processed /\ ~row.replied

\* Where("processed = ? AND replied = ?", true, false).Find(&messages): the
\* Limit(200) chained after Find takes no part in the query.
FetchPending(messages) == SelectSeq(messages, ProcessedUnreplied)

\* The reply envelope reporting success whatever the row says (faulty variant).
ResponsePayloadOk(msg) ==
    [Event |-> msg.event, MessageID |-> msg.id, request_id |-> msg.request_id,
     requested_at |-> msg.requested_at, success |-> TRUE,
     data |-> msg.response_payload, error_message |-> "",
     processed_at |-> msg.processed_at, queued_at |-> msg.queued_at]

\* ResponsePayloadV1 of a message row.
ResponsePayload(msg) ==
    [Event |-> msg.event, MessageID |-> msg.id, request_id |-> msg.request_id,
     requested_at |-> msg.requested_at, success |-> msg.success,
     data |-> msg.response_payload, error_message |-> msg.error_message,
     processed_at |-> msg.processed_at, queued_at |-> msg.queued_at]

\* The query and the loop that prepares the responses: the payloads are
\* appended to responsePayloads, which is never emptied.
PubFetch ==
    /\ ~cancelled
    /\ pubPc = "fetch"
    /\ FetchPending(dbMessages) # <<>>
    /\ pubMessages' = FetchPending(dbMessages)
    /\ responsePayloads' = responsePayloads \o
          [k \in 1..Len(FetchPending(dbMessages)) |-> ResponsePayload(FetchPending(dbMessages)[k])]
    /\ pubIdx' = 1
    /\ pubPc' = "publish"
    /\ UNCHANGED lifecycle
    /\ UNCHANGED <<stream, consumer, natsChan, ingestBatch, dbMessages, dbCfg, procPc,
                   procMessages, procIdx, tx, ackedMessages, replies,
                   hasPendingProxyChanges, clock, faults, hist>>

\* The query fails: SendResponsesToQueue returns, and its deferred Wg.Done()
\* runs.
PubFetchFault ==
    /\ ~cancelled
    /\ pubPc = "fetch"
    /\ faults > 0
    /\ faults' = faults - 1
    /\ pubPc' = "stopped"
    /\ taskPc' = [taskPc EXCEPT !["SendResponsesToQueue"] = "done"]
    /\ wg' = wg - 1
    /\ UNCHANGED <<mainPc, cancelled>>
    /\ UNCHANGED <<stream, consumer, natsChan, ingestBatch, dbMessages, dbCfg, procPc,
                   procMessages, procIdx, tx, pubMessages, responsePayloads, ackedMessages,
                   pubIdx, replies, hasPendingProxyChanges, clock, hist>>

\* js.Publish of the next payload succeeds.
PubPublish ==
    /\ pubPc = "publish"
    /\ pubIdx <= Len(responsePayloads)
    /\ replies' = Append(replies,
                         [subject |-> OutgoingStreamPrefix \o responsePayloads[pubIdx].Event,
                          payload |-> responsePayloads[pubIdx]])
    /\ ackedMessages' = Append(ackedMessages, responsePayloads[pubIdx].MessageID)
    /\ pubIdx' = pubIdx + 1
    /\ UNCHANGED lifecycle
    /\ UNCHANGED <<stream, consumer, natsChan, ingestBatch, dbMessages, dbCfg, procPc,
                   procMessages, procIdx, tx, pubPc, pubMessages, responsePayloads,
                   hasPendingProxyChanges, clock, faults, hist>>

\* js.Publish of the next payload fails: logged, the loop continues.
PubPublishFault ==
    /\ pubPc = "publish"
    /\ pubIdx <= Len(responsePayloads)
    /\ faults > 0
    /\ faults' = faults - 1
    /\ pubIdx' = pubIdx + 1
    /\ hist' = [hist EXCEPT !.publishFailed = TRUE]
    /\ UNCHANGED lifecycle
    /\ UNCHANGED <<stream, consumer, natsChan, ingestBatch, dbMessages, dbCfg, procPc,
                   procMessages, procIdx, tx, pubPc, pubMessages, responsePayloads,
                   ackedMessages, replies, hasPendingProxyChanges, clock>>

Elems(q) == {q[k] : k \in 1..Len(q)}

\* The update marking every fetched row (faulty variant).
MarkRepliedAll(messages, fetched, acked) ==
    [k \in 1..Len(messages) |->
        IF k \in {m.id : m \in {fetched[j] : j \in 1..Len(fetched)}}
        THEN [messages[k] EXCEPT !.replied = TRUE]
        ELSE messages[k]]

\* The update writing the outcome columns' zero values along with replied
\* (faulty variant).
MarkRepliedZeroOutcome(messages, fetched, acked) ==
    [k \in 1..Len(messages) |->
        IF k \in {m.id : m \in Elems(fetched)} /\ k \in Elems(acked)
        THEN [messages[k] EXCEPT !.replied = TRUE, !.success = FALSE, !.error_message = ""]
        ELSE messages[k]]

\* Model(&messages).Where("id IN (?)", ackedMessages).Updates(Message{Replied: true}):
\* the rows of messages whose id is among ackedMessages.
MarkReplied(messages, fetched, acked) ==
    [k \in 1..Len(messages) |->
        IF k \in {m.id : m \in Elems(fetched)} /\ k \in Elems(acked)
        THEN [messages[k] EXCEPT !.replied = TRUE]
        ELSE messages[k]]

\* The update goes through the read-write handle.
PubMark ==
    /\ pubPc = "publish"
    /\ pubIdx > Len(responsePayloads)
    /\ tx = NoTx
    /\ dbMessages' = MarkReplied(dbMessages, pubMessages, ackedMessages)
    /\ ackedMessages' = <<>>
    /\ pubMessages' = <<>>
    /\ pubPc' = "fetch"
    /\ UNCHANGED lifecycle
    /\ UNCHANGED <<stream, consumer, natsChan, ingestBatch, dbCfg, procPc, procMessages,
                   procIdx, tx, responsePayloads, pubIdx, replies,
                   hasPendingProxyChanges, clock, faults, hist>>

-----------------------------------------------------------------------------
(* Proxy loader: ListenForBroadcastChangesToProxies *)

\* The flag read and left as it is (faulty variant of the swap).
ProxySwapLoad ==
    /\ hist' = [hist EXCEPT !.unseen = IF hasPendingProxyChanges THEN FALSE ELSE @]
    /\ UNCHANGED lifecycle
    /\ UNCHANGED <<stream, consumer, natsChan, ingestBatch, dbMessages, dbCfg, procPc,
                   procMessages, procIdx, tx, pubPc, pubMessages, responsePayloads,
                   ackedMessages, pubIdx, replies, hasPendingProxyChanges, clock, faults>>

\* One turn of the loader's loop: HasPendingProxyChanges.Swap(false). The
\* swap returns the flag's old value; on true the loader has seen every
\* commit made so far, which the history records.
ProxySwap ==
    /\ hasPendingProxyChanges' = FALSE
    /\ hist' = [hist EXCEPT !.unseen = IF hasPendingProxyChanges THEN FALSE ELSE @]
    /\ UNCHANGED lifecycle
    /\ UNCHANGED <<stream, consumer, natsChan, ingestBatch, dbMessages, dbCfg, procPc,
                   procMessages, procIdx, tx, pubPc, pubMessages, responsePayloads,
                   ackedMessages, pubIdx, replies, clock, faults>>

-----------------------------------------------------------------------------
(* Specifications *)

Next ==
    \/ Deliver
    \/ Redeliver
    \/ IngestDrain
    \/ StoreMessage
    \/ StoreMessageFault
    \/ ProcFetch
    \/ ProcFetchFault
    \/ ProcBegin
    \/ ProcMessage
    \/ ProcCommit
    \/ ProcCommitFault
    \/ PubFetch
    \/ PubFetchFault
    \/ PubPublish
    \/ PubPublishFault
    \/ PubMark

\* The whole pipeline, with redeliveries and injected failures.
Spec == Init /\ [][Next]_vars

NextHandlers ==
    \/ Deliver
    \/ IngestDrain
    \/ StoreMessage
    \/ ProcFetch
    \/ ProcBegin
    \/ ProcMessage
    \/ ProcCommit

\* Ingest and processor alone, failure-free, over the handlers' requests.
SpecHandlers == InitHandlers /\ [][NextHandlers]_vars

\* Ingest and processor alone, failure-free, over runs of up to
\* MaxListenerRequests requests on two listeners.
SpecListeners == InitListeners /\ [][NextHandlers]_vars

NextBacklog ==
    \/ PubFetch
    \/ PubPublish
    \/ PubMark

\* The publisher alone, failure-free, on a backlog of processed rows.
SpecBacklog == InitBacklog /\ [][NextBacklog]_vars

NextStoreFaults ==
    \/ Deliver
    \/ IngestDrain
    \/ StoreMessage
    \/ ProcFetch
    \/ ProcBegin
    \/ ProcMessage
    \/ ProcMessageFault
    \/ ProcCommit

\* Ingest and processor over the handlers' requests, the store refusing the
\* writes of some handler runs.
SpecStoreFaults == InitStoreFaults /\ [][NextStoreFaults]_vars

\* The step of the processor's loop over the fetched rows: ProcMessage is
\* the one action that advances procIdx, and it is possible exactly when the
\* loop has a row left.
ProcStep ==
    /\ procPc = "process"
    /\ procIdx <= Len(procMessages)
    /\ procIdx' = procIdx + 1

NextPublisher ==
    \/ Deliver
    \/ IngestDrain
    \/ StoreMessage
    \/ ProcFetch
    \/ ProcBegin
    \/ ProcMessage
    \/ ProcCommit
    \/ PubFetch
    \/ PubPublish
    \/ PubPublishFault
    \/ PubMark

\* Ingest, processor and publisher with failing publishes, their loops
\* scheduled: the processor and the publisher are goroutines of their own
\* whose loops never block for good, so a step of theirs that stays possible
\* is eventually taken.
SpecPublisher ==
    /\ InitPublisher
    /\ [][NextPublisher]_vars
    /\ WF_vars(ProcBegin)
    /\ WF_procIdx(ProcStep)
    /\ WF_vars(ProcCommit)
    /\ WF_vars(PubFetch)
    /\ WF_vars(PubPublish)
    /\ WF_vars(PubMark)

-----------------------------------------------------------------------------
(* Start-up and shutdown: main and the tasks' first and last statements *)

\* The tasks main has not started yet, in order.
Unspawned == SelectSeq(TaskOrder, LAMBDA t : taskPc[t] = "unspawned")

\* go manager.<task>(): the next go statement of main.
MainSpawn ==
    /\ mainPc = "spawn"
    /\ Unspawned # <<>>
    /\ taskPc' = [taskPc EXCEPT ![Head(Unspawned)] = "spawned"]
    /\ mainPc' = IF Len(Unspawned) = 1 THEN "waitSignal" ELSE "spawn"
    /\ UNCHANGED <<wg, cancelled>>
    /\ UNCHANGED pipeline

\* m.Wg.Add(1); defer m.Wg.Done(): the first statements of a task, run by
\* the task's own goroutine.
TaskStart ==
    /\ mainPc # "exited"
    /\ \E t \in Tasks :
          /\ taskPc[t] = "spawned"
          /\ taskPc' = [taskPc EXCEPT ![t] = "running"]
    /\ wg' = wg + 1
    /\ UNCHANGED <<mainPc, cancelled>>
    /\ UNCHANGED pipeline

\* sig := <-sigChan: SIGINT or SIGTERM arrives and main receives it.
MainSignal ==
    /\ mainPc = "waitSignal"
    /\ mainPc' = "cancel"
    /\ UNCHANGED <<taskPc, wg, cancelled>>
    /\ UNCHANGED pipeline

\* manager.CancelContext()
MainCancel ==
    /\ mainPc = "cancel"
    /\ cancelled' = TRUE
    /\ mainPc' = "wait"
    /\ UNCHANGED <<taskPc, wg>>
    /\ UNCHANGED pipeline

\* A running task observes the cancelled context, returns, and its deferred
\* Wg.Done() runs.
TaskFinish ==
    /\ mainPc # "exited"
    /\ cancelled
    /\ \E t \in Tasks :
          /\ taskPc[t] = "running"
          /\ taskPc' = [taskPc EXCEPT ![t] = "done"]
    /\ wg' = wg - 1
    /\ UNCHANGED <<mainPc, cancelled>>
    /\ UNCHANGED pipeline

\* manager.Wg.Wait() returns when the counter is zero; main goes on to
\* os.Exit(0), which ends every goroutine.
MainWait ==
    /\ mainPc = "wait"
    /\ wg = 0
    /\ mainPc' = "exited"
    /\ UNCHANGED <<taskPc, wg, cancelled>>
    /\ UNCHANGED pipeline

\* Where a task selects on Context.Done(): ListenToStream checks
\* Context.Err() at the head of its retry loop and after it, then waits on
\* the token; the three workers select at the head of their loops, with
\* nothing of an iteration in hand.
AtLoopTopAnywhere(t) == TRUE

AtLoopTop(t) ==
    CASE t = "ListenToStream" -> TRUE
      [] t = "StoreRequestsAndAcknowledge" -> ingestBatch = <<>>
      [] t = "ProcessRequests" -> procPc = "fetch"
      [] t = "SendResponsesToQueue" -> pubPc \in {"fetch", "stopped"}

\* A task observes the cancelled context where it selects on it, returns,
\* and its deferred Wg.Done() runs.
TaskExit(t) ==
    /\ mainPc # "exited"
    /\ cancelled
    /\ taskPc[t] \in {"connecting", "running"}
    /\ AtLoopTop(t)
    /\ taskPc' = [taskPc EXCEPT ![t] = "done"]
    /\ wg' = wg - 1
    /\ UNCHANGED <<mainPc, cancelled>>
    /\ UNCHANGED pipeline

\* ListenToStream's retry loop: CreateNATSConnection, JetStream and
\* ChanSubscribe succeed and the loop is left.
SubConnect ==
    /\ taskPc["ListenToStream"] = "connecting"
    /\ ~cancelled
    /\ taskPc' = [taskPc EXCEPT !["ListenToStream"] = "running"]
    /\ UNCHANGED <<mainPc, wg, cancelled>>
    /\ UNCHANGED pipeline

\* ListenToStream's retry loop: one of the three calls fails; the task
\* sleeps 5 s and tries again.
SubConnectFault ==
    /\ taskPc["ListenToStream"] = "connecting"
    /\ ~cancelled
    /\ faults > 0
    /\ faults' = faults - 1
    /\ UNCHANGED lifecycle
    /\ UNCHANGED <<stream, consumer, natsChan, ingestBatch, dbMessages, dbCfg, procPc,
                   procMessages, procIdx, tx, pubPc, pubMessages, responsePayloads,
                   ackedMessages, pubIdx, replies, hasPendingProxyChanges, clock, hist>>

NextShutdown ==
    \/ MainSpawn
    \/ TaskStart
    \/ MainSignal
    \/ MainCancel
    \/ TaskFinish
    \/ MainWait

\* Start-up and shutdown alone, with an idle pipeline.
SpecShutdown == InitShutdown /\ [][NextShutdown]_vars

-----------------------------------------------------------------------------
(* Vocabulary of the properties *)

UpsertEvents == {EvTLSUpsert, EvIngressUpsert, EvRedirectUpsert}
DeleteEvents == {EvTLSDelete, EvIngressDelete, EvRedirectDelete}

\* The step ProcMessage, and the message it handles.
Handling ==
    /\ procPc = "process"
    /\ tx # NoTx
    /\ tx' # NoTx
    /\ procIdx <= Len(procMessages)
    /\ procIdx' = procIdx + 1

Cur == procMessages[procIdx]
CurRequest == parseEvent(Cur.event, Cur.request_payload).message
CurRowAfter == tx'.messages[Cur.id]

ProcessError(err) == "failed to process request: " \o err

\* The errors a handler returns for a payload it rejects or for a listener
\* conflict, as processMessage records them.
RejectionMessages ==
    { ProcessError(e) : e \in
        { "domain is required", "cert and key are required",
          "invalid certificate PEM data", "invalid private key PEM data",
          "unsupported private key type", "unsupported private key type for validation",
          "certificate and key do not match",
          "currently only 0.0.0.0 is supported for bind_ip",
          "port is required and must be between 1 and 65535",
          "domain is required for HTTP protocol", "invalid domain",
          "at least one backend host is required",
          "backend_dns_resolver is required for DNS resolver",
          "invalid cidr in allowed_cidrs list", "invalid cidr in denied_cidrs list",
          "failed to upsert listener: listener protocol mismatch",
          "failed to upsert listener: listener is using TLS, requested non-TLS",
          "failed to upsert listener: listener is using non-TLS, requested TLS" } }

TLSMismatchMessage ==
    ProcessError("failed to upsert listener: listener is using TLS, requested non-TLS")

\* The ids the handlers derive from a request.
ListenerTargetID(r) == getListenerID(r.bind_ip, r.port)

IngressTargetID(r) ==
    getIngressRuleID(r.protocol, ListenerTargetID(r), r.domain,
                     IF r.protocol = HTTP /\ r.route_prefix = "" THEN "/" ELSE r.route_prefix)

RedirectTargetID(r) ==
    getHTTPRedirectRuleID(ListenerTargetID(r), r.domain,
                          IF r.route_prefix = "" THEN "/" ELSE r.route_prefix,
                          r.is_https_redirect)

BackendTuple(b) ==
    <<b.resolver_type, b.dns_resolver, b.hosts, b.port, b.is_tls, b.sni_domain>>

IsSorted(q) == \A k \in 1..(Len(q) - 1) : StrRank[q[k]] <= StrRank[q[k + 1]]

Referenced(cfg) ==
    /\ \A l \in cfg.listeners :
          l.id \in Pluck(cfg.ingress, "listener_id") \cup Pluck(cfg.redirects, "listener_id")
    /\ \A b \in cfg.backends : b.id \in Pluck(cfg.ingress, "backend_id")

-----------------------------------------------------------------------------
(* Properties of the handlers *)

\* C4: after every successful processor commit every Listener is referenced by
\* an IngressRule or an HTTPRedirectRule and every Backend by an IngressRule
\* (the committed tables only change by a commit).
C4_NoOrphanAfterCommit == Referenced(dbCfg)

\* C5: while a Listener row exists its protocol and is_tls do not change; an
\* ingress or redirect upsert on an existing listener id with another protocol
\* or is_tls fails, and one that matches both leaves the Listener rows as
\* they were.
C5_ListenerSticky ==
    [][ /\ \A l \in dbCfg.listeners : \A m \in dbCfg'.listeners : l.id = m.id => l = m
        /\ (tx # NoTx /\ tx' # NoTx) =>
              \A l \in tx.cfg.listeners : \A m \in tx'.cfg.listeners : l.id = m.id => l = m
        /\ (Handling /\ Cur.event \in {EvIngressUpsert, EvRedirectUpsert}
              /\ isListenerExist(tx.cfg, ListenerTargetID(CurRequest))) =>
              LET l == getListenerByID(tx.cfg, ListenerTargetID(CurRequest))
                  protocol == IF Cur.event = EvIngressUpsert THEN CurRequest.protocol ELSE HTTP
              IN IF l.protocol # protocol \/ l.is_tls # CurRequest.is_tls
                 THEN ~CurRowAfter.success
                 ELSE tx'.cfg.listeners = tx.cfg.listeners
      ]_vars

\* C5 witness: an upsert was refused for its protocol on a listener that is
\* kept as it was created.
C5_Witness ==
    /\ \E k \in 1..Len(dbMessages) :
          dbMessages[k].error_message =
              ProcessError("failed to upsert listener: listener protocol mismatch")
    /\ \E l \in dbCfg.listeners : l.id = "0.0.0.0:443" /\ l.protocol = TCP

\* C6: a request whose handler fails on validation or on a listener conflict
\* changes no configuration row.
C6_RejectedMutatesNothing ==
    [][ (Handling /\ CurRowAfter.error_message \in RejectionMessages) =>
            (~CurRowAfter.success /\ tx'.cfg = tx.cfg) ]_vars

\* C6 witness: after an upsert on a TLS listener, an upsert on the same
\* listener without TLS was refused with the TLS mismatch.
C6_Witness ==
    /\ Len(dbMessages) = 2
    /\ dbMessages[1].event = EvIngressUpsert
    /\ dbMessages[1].success
    /\ dbMessages[1].request_payload.is_tls
    /\ dbMessages[2].processed
    /\ ~dbMessages[2].success
    /\ dbMessages[2].error_message = TLSMismatchMessage
    /\ \E l \in dbCfg.listeners : l.id = "0.0.0.0:80" /\ l.is_tls

\* C7: no two Backend rows carry the same (resolver_type, dns_resolver, hosts,
\* port, is_tls, sni_domain), and hosts are stored sorted.
C7_BackendDedup ==
    \A b1 \in dbCfg.backends :
        /\ IsSorted(b1.hosts)
        /\ \A b2 \in dbCfg.backends : BackendTuple(b1) = BackendTuple(b2) => b1 = b2

\* C8: an upsert that succeeded, applied again right after, succeeds again and
\* leaves the configuration tables as the first application left them.
C8_UpsertIdempotent ==
    [][ (Handling /\ Cur.event \in UpsertEvents /\ hist.last # NoLast
           /\ hist.last.success /\ hist.last.event = Cur.event
           /\ hist.last.body = Body(Cur.request_payload)) =>
            (CurRowAfter.success /\ tx'.cfg = tx.cfg) ]_vars

\* Whether a delete request passes its handler's validation.
DeleteValid(event, r) ==
    IF event = EvTLSDelete THEN TRUE
    ELSE /\ r.bind_ip = "0.0.0.0"
         /\ r.port > 0
         /\ r.port <= 65535
         /\ (event = EvRedirectDelete \/ r.protocol = HTTP) => validateDomain(r.domain)

DeleteTargetAbsent(event, cfg, r) ==
    CASE event = EvTLSDelete ->
            getTLSCertificateID(r.domain, r.is_wildcard) \notin Ids(cfg.certs)
      [] event = EvIngressDelete -> IngressTargetID(r) \notin Ids(cfg.ingress)
      [] event = EvRedirectDelete -> RedirectTargetID(r) \notin Ids(cfg.redirects)

\* C9: a delete whose payload passes validation succeeds, whether or not the
\* entity exists; when its id is absent the tables are left unchanged.
C9_DeleteIdempotent ==
    [][ (Handling /\ Cur.event \in DeleteEvents /\ DeleteValid(Cur.event, CurRequest)) =>
            /\ CurRowAfter.success
            /\ DeleteTargetAbsent(Cur.event, tx.cfg, CurRequest) => tx'.cfg = tx.cfg
            /\ DeleteTargetAbsent(Cur.event, tx'.cfg, CurRequest) ]_vars

\* C9 witness: the same ingress delete was handled twice, once with the rule
\* present and once with it absent, and succeeded both times.
C9_Witness ==
    /\ Len(dbMessages) >= 2
    /\ \A k \in 1..2 : dbMessages[k].event = EvIngressDelete /\ dbMessages[k].success
    /\ Body(dbMessages[1].request_payload) = Body(dbMessages[2].request_payload)

\* C10: after a successful upsert on an id that already exists the stored rule
\* carries the request's values: an IngressRule its priority, backend, CIDR
\* lists and domain, an HTTPRedirectRule its priority, redirect targets and
\* status code.
C10_LaterUpsertWins ==
    [][ (Handling /\ CurRowAfter.success) =>
          /\ (Cur.event = EvIngressUpsert
                /\ IngressTargetID(CurRequest) \in Ids(tx.cfg.ingress)) =>
                LET rule == RowById(tx'.cfg.ingress, IngressTargetID(CurRequest))
                    backend == RowById(tx'.cfg.backends, rule.backend_id)
                IN /\ rule.priority = CurRequest.priority
                   /\ rule.domain = CurRequest.domain
                   /\ rule.allowed_cidrs = SortStrings(CurRequest.allowed_cidrs)
                   /\ rule.denied_cidrs = SortStrings(CurRequest.denied_cidrs)
                   /\ backend.hosts = SortStrings(CurRequest.backend_hosts)
                   /\ backend.port = CurRequest.backend_port
          /\ (Cur.event = EvRedirectUpsert
                /\ RedirectTargetID(CurRequest) \in Ids(tx.cfg.redirects)) =>
                LET rule == RowById(tx'.cfg.redirects, RedirectTargetID(CurRequest))
                IN /\ rule.priority = CurRequest.priority
                   /\ rule.scheme_redirect = CurRequest.scheme_redirect
                   /\ rule.host_redirect = CurRequest.host_redirect
                   /\ rule.path_redirect = CurRequest.path_redirect
                   /\ rule.status_code =
                        IF CurRequest.status_code = 0 THEN 301 ELSE CurRequest.status_code
      ]_vars

-----------------------------------------------------------------------------
(* Properties of the pipeline *)

\* Whether a Message row of the delivery's (event, request_id) is stored.
HasRow(i) ==
    /\ "request_id" \in DOMAIN stream[i].data
    /\ \E k \in 1..Len(dbMessages) :
          /\ dbMessages[k].event = stream[i].subject.rest
          /\ dbMessages[k].request_id = stream[i].data.request_id

NoDuplicatePair ==
    \A j, k \in 1..Len(dbMessages) :
        (dbMessages[j].event = dbMessages[k].event
           /\ dbMessages[j].request_id = dbMessages[k].request_id) => j = k

\* C1: no two Message rows share (event, request_id), whatever is delivered
\* and redelivered; a delivery whose pair is stored already inserts no row,
\* and is acked when no store call fails.
C1_UniqueRequest ==
    /\ []NoDuplicatePair
    /\ [][ (ingestBatch # <<>> /\ ingestBatch' = Tail(ingestBatch)
              /\ HasRow(Head(ingestBatch))) =>
               /\ dbMessages' = dbMessages
               /\ faults' = faults =>
                     /\ consumer'[Head(ingestBatch)].acked
                     /\ consumer'[Head(ingestBatch)].ackCalls
                          = consumer[Head(ingestBatch)].ackCalls + 1 ]_vars

\* C1 witness: a request was inserted, its ack was lost, it was delivered
\* again and acked, and one row is stored.
C1_Witness ==
    /\ Len(dbMessages) = 1
    /\ ingestBatch = <<>>
    /\ natsChan = <<>>
    /\ \E i \in 1..Len(stream) :
          /\ HasRow(i)
          /\ consumer[i].delivered = 2
          /\ consumer[i].ackCalls = 2
          /\ consumer[i].acked

\* The replies published for a Message row.
RepliesOf(row) ==
    {n \in 1..Len(replies) :
        /\ replies[n].payload.Event = row.event
        /\ replies[n].payload.request_id = row.request_id}

\* C2: in a run without any failure a request has one Message row and at most
\* one reply on the reply subject, whatever is ingested, processed and
\* replied after it.
C2_OneReplyPerRequest ==
    faults = MaxFaults =>
        /\ NoDuplicatePair
        /\ \A k \in 1..Len(dbMessages) : Cardinality(RepliesOf(dbMessages[k])) <= 1

\* C3: a replied row is processed, and no step takes processed or replied of
\* a row from true to false.
C3_RepliedIsTerminal ==
    /\ [](\A k \in 1..Len(dbMessages) : dbMessages[k].replied => dbMessages[k].processed)
    /\ [][ /\ Len(dbMessages') >= Len(dbMessages)
           /\ \A k \in 1..Len(dbMessages) :
                 /\ dbMessages[k].processed => dbMessages'[k].processed
                 /\ dbMessages[k].replied => dbMessages'[k].replied ]_vars

\* C3 witness: a row that was replied while another row was not yet
\* processed, and the processor has committed a batch after that reply.
C3_Witness ==
    /\ Len(dbMessages) = 2
    /\ dbMessages[1].replied
    /\ dbMessages[2].processed
    /\ dbMessages[2].processed_at > dbMessages[1].processed_at
    /\ procPc = "fetch"

\* The step in which the ingest worker handles delivery i: StoreMessage or
\* StoreMessageFault on the head of the drained list.
Ingesting(i) ==
    /\ ingestBatch # <<>>
    /\ Head(ingestBatch) = i
    /\ ingestBatch' = Tail(ingestBatch)

\* C11: an acked delivery is a poison message or has its (event, request_id)
\* stored, so a well-formed new request is never acked before its row is
\* inserted; a nak comes with no insert and no ack, and a well-formed new
\* request whose lookup or insert fails (no row inserted) is nak'ed.
C11_AckAfterInsert ==
    /\ [](\A i \in 1..Len(stream) :
             consumer[i].ackCalls > 0 => (Poison(stream[i]) \/ HasRow(i)))
    /\ [][ \A i \in 1..Len(stream) :
             /\ consumer'[i].nakCalls > consumer[i].nakCalls =>
                   /\ Ingesting(i)
                   /\ dbMessages' = dbMessages
                   /\ consumer'[i].ackCalls = consumer[i].ackCalls
             /\ (Ingesting(i) /\ ~Poison(stream[i]) /\ ~HasRow(i)
                   /\ dbMessages' = dbMessages) =>
                   /\ consumer'[i].nakCalls = consumer[i].nakCalls + 1
                   /\ consumer'[i].ackCalls = consumer[i].ackCalls
                   /\ ~consumer'[i].acked ]_vars

\* C11 witness: a well-formed request was nak'ed without a row, delivered
\* again, inserted and acked.
C11_Witness ==
    \E i \in 1..Len(stream) :
        /\ ~Poison(stream[i])
        /\ consumer[i].nakCalls = 1
        /\ consumer[i].delivered = 2
        /\ consumer[i].ackCalls = 1
        /\ consumer[i].acked
        /\ HasRow(i)

\* Whether a Message row stems from a well-formed delivery.
RowHasRequest(row) ==
    \E i \in 1..Len(stream) :
        /\ ~Poison(stream[i])
        /\ stream[i].subject.rest = row.event
        /\ stream[i].data.request_id = row.request_id

\* C12: a poison delivery is acked and dropped: the step that handles it calls
\* ack, never nak, and inserts nothing; every Message row and every reply
\* belongs to a well-formed request.
C12_PoisonAckedAndDropped ==
    /\ [](/\ \A i \in 1..Len(stream) : Poison(stream[i]) => consumer[i].nakCalls = 0
          /\ \A k \in 1..Len(dbMessages) : RowHasRequest(dbMessages[k])
          /\ \A n \in 1..Len(replies) :
                \E k \in 1..Len(dbMessages) :
                    /\ replies[n].payload.MessageID = dbMessages[k].id
                    /\ replies[n].payload.request_id = dbMessages[k].request_id
                    /\ RowHasRequest(dbMessages[k]))
    /\ [][ \A i \in 1..Len(stream) :
             (Ingesting(i) /\ Poison(stream[i])) =>
                 /\ dbMessages' = dbMessages
                 /\ consumer'[i].ackCalls = consumer[i].ackCalls + 1
                 /\ consumer'[i].nakCalls = 0 ]_vars

\* C12 witness: a poison delivery was acked while another request was stored
\* and replied.
C12_Witness ==
    /\ \E i \in 1..Len(stream) : Poison(stream[i]) /\ consumer[i].acked
    /\ Len(dbMessages) = 1
    /\ Len(replies) = 1
    /\ ingestBatch = <<>>
    /\ natsChan = <<>>

\* The step in which the processor's loop ends: the commit, or its failure.
Committing == procPc = "process" /\ procPc' = "fetch"

C14_BatchAtomic ==
    [][ /\ (Committing /\ faults' < faults) =>
              /\ dbMessages' = dbMessages
              /\ dbCfg' = dbCfg
              /\ hasPendingProxyChanges' = hasPendingProxyChanges
              /\ \A j \in 1..Len(procMessages) :
                    /\ ~dbMessages'[procMessages[j].id].processed
                    /\ \E k \in 1..Len(FetchUnprocessed(dbMessages')) :
                          FetchUnprocessed(dbMessages')[k].id = procMessages[j].id
        /\ (Committing /\ faults' = faults) =>
              /\ dbMessages' = tx.messages
              /\ dbCfg' = cleanupUnusedBackendsAndListeners(tx.cfg)
              /\ \A j \in 1..Len(procMessages) : dbMessages'[procMessages[j].id].processed
        /\ ~Committing => dbCfg' = dbCfg
        /\ (tx # NoTx /\ ~Committing) => dbMessages' = dbMessages
      ]_vars

\* C14 witness: the commit of a batch has failed: the batch is still in the
\* processor's hands, nothing of it is visible, and the loop is back at its
\* fetch.
C14_Witness ==
    /\ procPc = "fetch"
    /\ procMessages # <<>>
    /\ tx = NoTx
    /\ faults < MaxFaults
    /\ dbCfg = EmptyCfg
    /\ ~hasPendingProxyChanges
    /\ \A k \in 1..Len(dbMessages) : ~dbMessages[k].processed
    /\ \E j \in 1..Len(procMessages) :
          /\ procMessages[j].event = EvIngressUpsert
          /\ procMessages[j].request_payload.domain = "a.io"

\* C15: HasPendingProxyChanges is raised by a successful commit of a batch
\* and by nothing else: it is true exactly when some batch has been committed
\* (some row is processed), every successful commit leaves it true, and no
\* step in which something fails (a fetch, a commit, a store call, a publish)
\* changes it.
C15_BroadcastOnlyOnCommit ==
    /\ [](hasPendingProxyChanges <=> \E k \in 1..Len(dbMessages) : dbMessages[k].processed)
    /\ [][ /\ hasPendingProxyChanges' # hasPendingProxyChanges =>
                 /\ Committing
                 /\ faults' = faults
                 /\ procMessages # <<>>
                 /\ hasPendingProxyChanges'
           /\ (Committing /\ faults' = faults) => hasPendingProxyChanges'
           /\ faults' < faults => hasPendingProxyChanges' = hasPendingProxyChanges
         ]_vars

\* C15 witness: a first batch was committed and raised the flag, the commit
\* of a second batch has failed.
C15_Witness ==
    /\ hasPendingProxyChanges
    /\ faults < MaxFaults
    /\ procPc = "fetch"
    /\ procMessages # <<>>
    /\ Len(dbMessages) = 2
    /\ dbMessages[1].processed
    /\ ~dbMessages[2].processed

\* The step in which the publisher's update ends an iteration.
Marking == pubPc = "publish" /\ pubPc' = "fetch"

\* C16: a replied row has a published reply envelope; the update of an
\* iteration marks only rows whose envelope was published in that iteration,
\* a fetched row without a successful publish keeps replied=false and stays
\* due; and when a publish has failed, every row due for a reply is
\* published and replied later.
C16_RepliedAfterPublish ==
    /\ [](\A k \in 1..Len(dbMessages) :
             dbMessages[k].replied =>
                 \E n \in 1..Len(replies) : replies[n].payload.MessageID = k)
    /\ [][ /\ \A k \in 1..Len(dbMessages) :
                 (dbMessages'[k].replied /\ ~dbMessages[k].replied) =>
                     /\ Marking
                     /\ k \in Elems(ackedMessages)
           /\ Marking =>
                 \A j \in 1..Len(pubMessages) :
                     pubMessages[j].id \notin Elems(ackedMessages) =>
                         /\ ~dbMessages'[pubMessages[j].id].replied
                         /\ ProcessedUnreplied(dbMessages'[pubMessages[j].id])
         ]_vars
    /\ \A k \in 1..MaxPublished :
          (hist.publishFailed /\ k <= Len(dbMessages) /\ ProcessedUnreplied(dbMessages[k]))
              ~> (k <= Len(dbMessages) /\ dbMessages[k].replied)

\* C16 witness: the publish of a reply has failed, the row was left
\* unreplied by that iteration, and a later iteration has published the
\* reply and marked the row.
C16_Witness ==
    /\ hist.publishFailed
    /\ Len(dbMessages) = 1
    /\ dbMessages[1].replied
    /\ Len(replies) = 2
    /\ Len(responsePayloads) = 2


\* C17: main does not pass the join barrier and exit until each of the four
\* started tasks has finished, whatever the interleaving of the tasks'
\* start-up with the arrival of the shutdown signal.
C17_JoinBarrier ==
    mainPc = "exited" => \A t \in Tasks : taskPc[t] = "done"

\* C18: until the context is cancelled no task stops; an error makes a task
\* log and go on with a later iteration of its loop.
C18_TasksSurviveErrors ==
    ~cancelled => \A t \in Tasks : taskPc[t] = "running"

\* The tables as the processor sees them: its open transaction, or else the
\* committed rows.
ProcessorView == IF tx = NoTx THEN dbMessages ELSE tx.messages

\* The ids of the rows of the batch in hand.
BatchIDs == {procMessages[k].id : k \in 1..Len(procMessages)}

\* C19: the processor handles messages in queued_at ascending order: the
\* batch in hand is ordered by queued_at and handled from its head; no
\* unprocessed row left out of the batch has a smaller queued_at than a row
\* of the batch; and of two rows persisted one after the other the later is
\* never handled while the earlier is not.
C19_QueuedAtOrder ==
    /\ \A i, j \in 1..Len(procMessages) :
          i < j => procMessages[i].queued_at <= procMessages[j].queued_at
    /\ procPc = "process" =>
          \A k \in 1..Len(procMessages) :
              tx.messages[procMessages[k].id].processed <=> k < procIdx
    /\ procPc \in {"begin", "process"} =>
          \A r \in 1..Len(dbMessages) :
              (~dbMessages[r].processed /\ dbMessages[r].id \notin BatchIDs) =>
                  \A k \in 1..Len(procMessages) :
                      procMessages[k].queued_at <= dbMessages[r].queued_at
    /\ \A i, j \in 1..Len(ProcessorView) :
          (i < j /\ ProcessorView[j].processed) => ProcessorView[i].processed

\* A batch of two rows persisted at different times, the earlier one handled
\* and the later one next.
C19_Witness ==
    /\ procPc = "process"
    /\ Len(procMessages) = 2
    /\ procIdx = 2
    /\ procMessages[1].queued_at < procMessages[2].queued_at
    /\ procMessages[1].id < procMessages[2].id
    /\ tx.messages[procMessages[1].id].processed
    /\ ~tx.messages[procMessages[2].id].processed

\* A step of the processor handling a message while the store refuses the
\* handler's writes, the request being one whose handler gets to its writes:
\* with the store accepting them it returns no error, and it is not the
\* delete of a certificate that is absent, which returns before its write.
HandlingWriteFault ==
    /\ Handling
    /\ faults' = faults - 1
    /\ Process(Cur.event, tx.cfg, CurRequest, TRUE).err = ""
    /\ Cur.event = EvTLSDelete => ~DeleteTargetAbsent(EvTLSDelete, tx.cfg, CurRequest)

\* C20: a handler's store write failing inside the batch transaction is
\* recorded on the message row, with success false and an error message, for
\* every handler, the certificate upsert included.
C20_WriteFailureSurfaced ==
    [][HandlingWriteFault => (~CurRowAfter.success /\ CurRowAfter.error_message # "")]_vars

\* C21: the certificate id identifies one (domain, is_wildcard) pair: a
\* certificate upsert or delete for one pair leaves the certificate row of
\* every other pair in place and unchanged.
C21_CertIDIdentifiesPair ==
    [][(Handling /\ Cur.event \in {EvTLSUpsert, EvTLSDelete}) =>
          \A row \in tx.cfg.certs :
              (row.domain # CurRequest.domain \/ row.is_wildcard # CurRequest.is_wildcard) =>
                  row \in tx'.cfg.certs]_vars

\* The listener the request asks for exists and no ingress or redirect rule
\* refers to it.
Released(cfg, r) ==
    /\ isListenerExist(cfg, ListenerTargetID(r))
    /\ ListenerTargetID(r) \notin
          Pluck(cfg.ingress, "listener_id") \cup Pluck(cfg.redirects, "listener_id")

\* The tables without the listener the request asks for.
WithoutListener(cfg, r) ==
    [cfg EXCEPT !.listeners = {l \in @ : l.id # ListenerTargetID(r)}]

\* C22: a listener whose rules have all been deleted is released: an upsert
\* asking for it, valid but for the listener's protocol or is_tls, succeeds,
\* in the batch of the last delete or in a later one, with or without other
\* rules in the store.
C22_ReleasedListenerReusable ==
    [][(/\ Handling
        /\ Cur.event \in {EvIngressUpsert, EvRedirectUpsert}
        /\ Released(tx.cfg, CurRequest)
        /\ Process(Cur.event, WithoutListener(tx.cfg, CurRequest), CurRequest, TRUE).err = "")
          => CurRowAfter.success]_vars

\* The step in which a batch commits: the rows of the batch, all processed,
\* become the committed rows.
CommitStep ==
    /\ Committing
    /\ tx # NoTx
    /\ dbMessages' = tx.messages
    /\ dbMessages' # dbMessages

ListenerRefs(cfg) == Pluck(cfg.ingress, "listener_id") \cup Pluck(cfg.redirects, "listener_id")
BackendRefs(cfg) == Pluck(cfg.ingress, "backend_id")

\* C23: at the end of a batch, with no ingress and no redirect rule the
\* cleanup deletes no listener, and with no ingress rule it deletes no
\* backend; with a non-empty reference set it deletes exactly the listeners
\* (backends) whose id is not referenced; rules and certificates are left
\* alone.
C23_CleanupGuard ==
    [][CommitStep =>
          /\ dbCfg'.listeners =
                IF ListenerRefs(tx.cfg) = {} THEN tx.cfg.listeners
                ELSE {l \in tx.cfg.listeners : l.id \in ListenerRefs(tx.cfg)}
          /\ dbCfg'.backends =
                IF BackendRefs(tx.cfg) = {} THEN tx.cfg.backends
                ELSE {b \in tx.cfg.backends : b.id \in BackendRefs(tx.cfg)}
          /\ dbCfg'.ingress = tx.cfg.ingress
          /\ dbCfg'.redirects = tx.cfg.redirects
          /\ dbCfg'.certs = tx.cfg.certs]_vars

\* A batch has committed with no rule left, and the listener and the backend
\* of the deleted rule are kept.
C23_Witness ==
    /\ tx = NoTx
    /\ Len(dbMessages) = 2
    /\ \A k \in 1..2 : dbMessages[k].processed /\ dbMessages[k].success
    /\ dbMessages[1].event = EvIngressUpsert
    /\ dbMessages[2].event = EvIngressDelete
    /\ dbCfg.ingress = {}
    /\ dbCfg.redirects = {}
    /\ dbCfg.listeners # {}
    /\ dbCfg.backends # {}

\* A row's three timestamps are all set (0 stands for a null column).
Stamped(row) ==
    /\ row.processed_at # 0
    /\ row.queued_at # 0
    /\ row.requested_at # 0

\* C24: every processed Message row, committed or in the open transaction,
\* has processed_at, queued_at and requested_at set, and so has every reply
\* envelope the publisher builds.
C24_ProcessedIsStamped ==
    /\ \A k \in 1..Len(ProcessorView) : ProcessorView[k].processed => Stamped(ProcessorView[k])
    /\ \A k \in 1..Len(dbMessages) : dbMessages[k].processed => Stamped(dbMessages[k])
    /\ \A n \in 1..Len(responsePayloads) : Stamped(responsePayloads[n])
    /\ \A n \in 1..Len(replies) : Stamped(replies[n].payload)

\* A reply envelope has been built from a processed row and published.
C24_Witness ==
    /\ Len(replies) >= 1
    /\ dbMessages[replies[1].payload.MessageID].processed
    /\ replies[1].payload.processed_at = dbMessages[replies[1].payload.MessageID].processed_at
    /\ replies[1].payload.processed_at > 0

\* C25: an iteration of the publisher takes at most 200 rows and publishes
\* at most 200 envelopes, however many rows are processed and unreplied.
C25_PublishAtMostLimit ==
    /\ Len(pubMessages) <= PublishBatchLimit
    /\ pubPc = "publish" => pubIdx - 1 <= PublishBatchLimit

\* C26: every stored Listener has protocol http or tcp, ip 0.0.0.0 and a port
\* in 1..65535.
C26_ListenerWellFormed ==
    \A l \in dbCfg.listeners :
        /\ l.protocol \in {HTTP, TCP}
        /\ l.ip = "0.0.0.0"
        /\ l.port \in 1..65535

\* C27: every stored HTTPRedirectRule has status_code 301, 302, 307 or 308.
C27_RedirectStatusCode ==
    \A r \in dbCfg.redirects : r.status_code \in {301, 302, 307, 308}

\* C28: the id of a stored HTTPRedirectRule is
\* "http:<listener_id>:<domain>:<route_prefix>:<kind>", kind being "https"
\* for an https redirect and "other" otherwise, and a redirect delete that
\* succeeds leaves no rule with its key.
C28_RedirectIDFormat ==
    /\ [](\A r \in dbCfg.redirects :
             r.id = "http:" \o r.listener_id \o ":" \o r.domain \o ":" \o r.path_prefix \o ":"
                    \o (IF r.is_https_redirect THEN "https" ELSE "other"))
    /\ [][(Handling /\ Cur.event = EvRedirectDelete /\ CurRowAfter.success) =>
                 ~\E r \in tx'.cfg.redirects :
                     /\ r.listener_id = ListenerTargetID(CurRequest)
                     /\ r.domain = CurRequest.domain
                     /\ r.path_prefix = (IF CurRequest.route_prefix = "" THEN "/"
                                         ELSE CurRequest.route_prefix)
                     /\ r.is_https_redirect = CurRequest.is_https_redirect]_vars

\* Whether two rows agree on the given columns.
SameOn(columns, a, b) == \A f \in columns : a[f] = b[f]

MessageColumns ==
    {"id", "event", "request_id", "request_payload", "response_payload", "error_message",
     "success", "processed", "replied", "requested_at", "queued_at", "processed_at"}

\* The columns StoreMessage sets for good.
RequestColumns == {"id", "event", "request_id", "request_payload", "requested_at", "queued_at"}

\* The columns processMessage writes back.
OutcomeColumns == {"processed", "processed_at", "success", "error_message", "response_payload"}

\* A step of the subscriber, of the ingest worker, of the publisher.
SubscriberStep == natsChan' # natsChan /\ ingestBatch' = ingestBatch
IngestStep == ingestBatch' # ingestBatch
PublisherStep == pubPc' # pubPc \/ pubIdx' # pubIdx

\* C29: the configuration tables change only in the processor's transaction
\* and by its commit: a step of the subscriber, of the ingest worker or of
\* the publisher leaves the five tables as they are, committed and in the
\* transaction; the ingest worker at most appends one Message row; the
\* publisher changes nothing of a Message row but replied.
C29_OnlyProcessorWritesConfig ==
    [][ /\ dbCfg' # dbCfg => CommitStep
        /\ (SubscriberStep \/ IngestStep \/ PublisherStep) => (dbCfg' = dbCfg /\ tx' = tx)
        /\ SubscriberStep => dbMessages' = dbMessages
        /\ IngestStep =>
              \/ dbMessages' = dbMessages
              \/ /\ Len(dbMessages') = Len(dbMessages) + 1
                 /\ SubSeq(dbMessages', 1, Len(dbMessages)) = dbMessages
        /\ PublisherStep =>
              /\ Len(dbMessages') = Len(dbMessages)
              /\ \A k \in 1..Len(dbMessages) :
                    SameOn(MessageColumns \ {"replied"}, dbMessages[k], dbMessages'[k])
      ]_vars

\* The processor has committed configuration rows and the publisher has
\* marked a row replied.
C29_Witness ==
    /\ dbCfg.ingress # {}
    /\ dbCfg.listeners # {}
    /\ dbCfg.backends # {}
    /\ \E k \in 1..Len(dbMessages) : dbMessages[k].replied
    /\ Len(replies) >= 1

\* C30: a stored Message row keeps its event, request_id, request_payload,
\* requested_at and queued_at: no row is removed, the processor's
\* transaction and its commit change only the outcome columns, and the
\* publisher only replied.
C30_RequestColumnsImmutable ==
    [][ /\ Len(dbMessages') >= Len(dbMessages)
        /\ \A k \in 1..Len(dbMessages) : SameOn(RequestColumns, dbMessages[k], dbMessages'[k])
        /\ tx' # NoTx =>
              /\ Len(tx'.messages) = Len(dbMessages')
              /\ \A k \in 1..Len(dbMessages') :
                    SameOn(MessageColumns \ OutcomeColumns, dbMessages'[k], tx'.messages[k])
        /\ CommitStep =>
              \A k \in 1..Len(dbMessages) :
                  SameOn(MessageColumns \ OutcomeColumns, dbMessages[k], dbMessages'[k])
        /\ Marking =>
              \A k \in 1..Len(dbMessages) :
                  SameOn(MessageColumns \ {"replied"}, dbMessages[k], dbMessages'[k])
      ]_vars

\* A row has been written back by the processor and marked by the publisher,
\* and still carries the request it was inserted with.
C30_Witness ==
    /\ Len(dbMessages) >= 1
    /\ dbMessages[1].processed
    /\ dbMessages[1].replied
    /\ dbMessages[1].processed_at > dbMessages[1].queued_at
    /\ \E i \in 1..Len(stream) :
          /\ ~Poison(stream[i])
          /\ dbMessages[1].event = stream[i].subject.rest
          /\ dbMessages[1].request_id = stream[i].data.request_id
          /\ dbMessages[1].requested_at = stream[i].data.requested_at

-----------------------------------------------------------------------------
(* The change flag and its single consumer *)

NextBroadcast ==
    \/ Deliver
    \/ IngestDrain
    \/ StoreMessage
    \/ ProcFetch
    \/ ProcBegin
    \/ ProcMessage
    \/ ProcCommit
    \/ ProcCommitFault
    \/ ProxySwap

\* Ingest and processor with failing commits, and one proxy loader swapping
\* the change flag at any moment.
SpecBroadcast == InitPublisher /\ [][NextBroadcast]_vars

-----------------------------------------------------------------------------
(* Cancellation *)

InitCancel ==
    /\ stream \in PublisherStreams
    /\ faults = MaxFaults
    /\ Connecting
    /\ InitPipeline

NextCancel ==
    \/ SubConnect
    \/ SubConnectFault
    \/ Deliver
    \/ IngestDrain
    \/ StoreMessage
    \/ ProcFetch
    \/ ProcBegin
    \/ ProcMessage
    \/ ProcCommit
    \/ ProcCommitFault
    \/ PubFetch
    \/ PubPublish
    \/ PubPublishFault
    \/ PubMark
    \/ MainSignal
    \/ MainCancel
    \/ \E t \in Tasks : TaskExit(t)
    \/ MainWait

\* The pipeline with the shutdown signal arriving at any moment. Every call
\* returns, so a step of a task that stays possible is eventually taken:
\* the rest of an iteration in hand, and the return where the task selects
\* on the cancelled context.
SpecCancel ==
    /\ InitCancel
    /\ [][NextCancel]_vars
    /\ WF_vars(StoreMessage)
    /\ WF_vars(ProcBegin)
    /\ WF_procIdx(ProcStep)
    /\ WF_vars(ProcCommit)
    /\ WF_vars(PubPublish)
    /\ WF_vars(PubMark)
    /\ WF_vars(MainCancel)
    /\ \A t \in Tasks : WF_vars(TaskExit(t))

\* C32: once the token is cancelled each of the four tasks terminates:
\* ListenToStream from its retry loop or from its wait on the token, the
\* three workers at the head of their loops. The processor returns only
\* with no batch in hand and no transaction open, and the ingest worker and
\* the publisher only with no iteration in hand.
C32_TasksTerminate ==
    /\ cancelled ~> (\A t \in Tasks : taskPc[t] = "done")
    /\ [][ /\ taskPc'["ProcessRequests"] # taskPc["ProcessRequests"] =>
                tx = NoTx /\ procPc = "fetch" /\ cancelled
           /\ taskPc'["StoreRequestsAndAcknowledge"] # taskPc["StoreRequestsAndAcknowledge"] =>
                ingestBatch = <<>> /\ cancelled
           /\ taskPc'["SendResponsesToQueue"] # taskPc["SendResponsesToQueue"] =>
                pubPc = "fetch" /\ cancelled
           /\ taskPc'["ListenToStream"] = "done" => cancelled ]_vars

\* The token is cancelled while the processor has its transaction open; the
\* ingest worker, at the head of its loop, has returned already.
C32_Witness ==
    /\ cancelled
    /\ tx # NoTx
    /\ taskPc["StoreRequestsAndAcknowledge"] = "done"
    /\ taskPc["ProcessRequests"] = "running"

-----------------------------------------------------------------------------
(* Restart *)

\* The process ends, at any point, and is started again: NewManager opens
\* the same database file, main starts the four tasks, and every task begins
\* with fresh locals. The open transaction is rolled back; what the channel
\* and the tasks held is gone; the tables, the stream, the durable consumer
\* and the published replies stay.
Restart ==
    /\ faults > 0
    /\ faults' = faults - 1
    /\ natsChan' = <<>>
    /\ ingestBatch' = <<>>
    /\ procPc' = "fetch"
    /\ procMessages' = <<>>
    /\ procIdx' = 1
    /\ tx' = NoTx
    /\ pubPc' = "fetch"
    /\ pubMessages' = <<>>
    /\ responsePayloads' = <<>>
    /\ ackedMessages' = <<>>
    /\ pubIdx' = 1
    /\ hasPendingProxyChanges' = FALSE
    /\ hist' = [hist EXCEPT !.last = NoLast, !.unseen = FALSE]
    /\ UNCHANGED lifecycle
    /\ UNCHANGED <<stream, consumer, dbMessages, dbCfg, replies, clock>>

NextRestart ==
    \/ Deliver
    \/ Redeliver
    \/ IngestDrain
    \/ StoreMessage
    \/ ProcFetch
    \/ ProcBegin
    \/ ProcMessage
    \/ ProcCommit
    \/ ProcCommitFault
    \/ PubFetch
    \/ PubPublish
    \/ PubPublishFault
    \/ PubMark
    \/ Restart

\* The pipeline with failing commits, failing publishes and restarts, the
\* processor's and the publisher's loops scheduled.
SpecRestart ==
    /\ InitPublisher
    /\ [][NextRestart]_vars
    /\ WF_vars(ProcFetch)
    /\ WF_vars(ProcBegin)
    /\ WF_procIdx(ProcStep)
    /\ WF_vars(ProcCommit)
    /\ WF_vars(PubFetch)
    /\ WF_vars(PubPublish)
    /\ WF_vars(PubMark)

\* C33: every row the ingest worker has inserted becomes processed and then
\* replied, commits and publishes failing a bounded number of times and the
\* process restarting in between; a row is never replied before it is
\* processed.
C33_EventuallyReplied ==
    /\ \A k \in 1..MaxPublished :
          (k <= Len(dbMessages)) ~> (k <= Len(dbMessages) /\ dbMessages[k].processed)
    /\ \A k \in 1..MaxPublished :
          (k <= Len(dbMessages) /\ dbMessages[k].processed)
              ~> (k <= Len(dbMessages) /\ dbMessages[k].replied)
    /\ [](\A k \in 1..Len(dbMessages) : dbMessages[k].replied => dbMessages[k].processed)

\* A reply was published and the process restarted before the row was
\* marked; the new process has found the row processed and unreplied,
\* published its reply again and marked it (two replies, no failed publish,
\* one payload prepared since the start).
C33_Witness ==
    /\ Len(dbMessages) = 1
    /\ dbMessages[1].replied
    /\ Len(replies) = 2
    /\ ~hist.publishFailed
    /\ Len(responsePayloads) = 1

-----------------------------------------------------------------------------
(* The backend of an ingress rule *)

\* The Backend row the rule of the request in hand references once the
\* request has been handled.
CurBackendAfter ==
    RowById(tx'.cfg.backends, RowById(tx'.cfg.ingress, IngressTargetID(CurRequest)).backend_id)

\* C34: the Backend row an accepted IngressRule.upsert creates or reuses
\* carries the request's backend_* fields as stored (hosts sorted, an empty
\* resolver type stored as static): its is_tls is the request's
\* backend_is_tls, whatever the listener's is_tls.
C34_BackendFromRequest ==
    [][ (Handling /\ Cur.event = EvIngressUpsert /\ CurRowAfter.success) =>
            /\ CurBackendAfter.is_tls = CurRequest.backend_is_tls
            /\ CurBackendAfter.port = CurRequest.backend_port
            /\ CurBackendAfter.resolver_type =
                  (IF CurRequest.backend_resolver = "" THEN "static"
                   ELSE CurRequest.backend_resolver)
            /\ CurBackendAfter.dns_resolver = CurRequest.backend_dns_resolver
            /\ CurBackendAfter.hosts = StringListValue(CurRequest.backend_hosts)
            /\ CurBackendAfter.sni_domain = CurRequest.backend_sni_domain ]_vars

-----------------------------------------------------------------------------
(* Batches *)

\* Requests in one run of SpecBatches.
MaxBatchRequests == 4

BatchStreams ==
    { [i \in 1..Len(q) |-> Envelope(q[i][1], "r" \o ToString(i), q[i][2])] :
        q \in SeqsUpTo(ListenerCatalogue, MaxBatchRequests) \ {<<>>} }

InitBatches ==
    /\ stream \in BatchStreams
    /\ faults = 0
    /\ InitCommon

\* Ingest and processor alone, failure-free, over runs of up to
\* MaxBatchRequests requests: the processor's fetches cut the requests into
\* batches wherever the interleaving with the ingest worker puts them.
SpecBatches == InitBatches /\ [][NextHandlers]_vars

\* The loop of ProcessRequests over the rows of one batch.
RECURSIVE ProcessAll(_, _)
ProcessAll(view, messages) ==
    IF messages = <<>> THEN view
    ELSE ProcessAll(processMessage(view, Head(messages), TRUE, TRUE), Tail(messages))

\* The rows and the configuration after the rows have been processed as one
\* batch on an empty configuration: the loop, the cleanup and the commit.
OneBatch(messages) ==
    LET view == ProcessAll([messages |-> messages, cfg |-> EmptyCfg], messages)
    IN [messages |-> view.messages, cfg |-> cleanupUnusedBackendsAndListeners(view.cfg)]

\* The rule rows with the backend's columns in place of its random id.
RulesOf(cfg) ==
    { [rule |-> [r EXCEPT !.backend_id = ""],
       backend |-> BackendTuple(RowById(cfg.backends, r.backend_id))] : r \in cfg.ingress }

\* Every request of the stream is stored, processed and committed.
AllProcessed ==
    /\ Len(dbMessages) = Len(stream)
    /\ \A k \in 1..Len(dbMessages) : dbMessages[k].processed
    /\ tx = NoTx

\* C35: whatever batches the requests were processed in, every request has
\* the result, and the tables the rule and certificate rows, that processing
\* all of them as one batch gives.
C35_BatchCutIndependent ==
    AllProcessed =>
        /\ \A k \in 1..Len(dbMessages) :
              /\ dbMessages[k].success = OneBatch(dbMessages).messages[k].success
              /\ dbMessages[k].error_message = OneBatch(dbMessages).messages[k].error_message
        /\ RulesOf(dbCfg) = RulesOf(OneBatch(dbMessages).cfg)
        /\ dbCfg.redirects = OneBatch(dbMessages).cfg.redirects
        /\ dbCfg.certs = OneBatch(dbMessages).cfg.certs

-----------------------------------------------------------------------------
(* References *)

\* Every rule's listener and backend exist in the configuration.
RefsIntact(cfg) ==
    /\ ListenerRefs(cfg) \subseteq Ids(cfg.listeners)
    /\ BackendRefs(cfg) \subseteq Ids(cfg.backends)

\* C36: every rule of the committed tables references an existing Listener
\* and an existing Backend; no handler leaves a rule without them in the open
\* transaction, and the cleanup before the commit removes none a rule
\* references.
C36_NoDanglingReference ==
    /\ RefsIntact(dbCfg)
    /\ tx # NoTx => RefsIntact(tx.cfg) /\ RefsIntact(cleanupUnusedBackendsAndListeners(tx.cfg))

\* A commit whose cleanup had rows to keep: a redirect rule is the only
\* reference to its listener, beside an ingress rule with its own listener
\* and backend.
C36_Witness ==
    /\ tx = NoTx
    /\ dbCfg.ingress # {}
    /\ \E r \in dbCfg.redirects : r.listener_id \notin Pluck(dbCfg.ingress, "listener_id")

-----------------------------------------------------------------------------
(* One committed transaction per message *)

=============================================================================
